---------------------------- MODULE Spec2Model ----------------------------
(*
  A model of the novel-writing agent: the Record Store of
  novel_writing_agent.py (chapter summaries, characters, plot threads kept
  in memory by every agent process and persisted as whole-collection JSON
  files), the four-stage workflow of create_next_chapter, and the importers
  that mine a narrative log (gemini_adapter_fixed.py, gemini_adapter.py,
  simple_migrate.py).

  Text.  A Python str is modelled as a rope: a sequence of pieces
  [id, v, n], where id/v name the piece (a literal of the source, a number
  rendered with str(), a field of a record) and n is its number of
  characters.  A prefix of a piece is the same piece with a smaller n, so
  len() and slicing are computed on character counts as Python does.

  Documents.  A markdown document is a sequence of lines; every line is a
  record [k, num, title] whose kind k says which of the line shapes the
  source's regular expressions distinguish it is.
*)
EXTENDS Integers, Sequences, FiniteSets, TLC

VARIABLES
  chapter_summaries,   \* [Agents -> Seq(ChapterSummary)]: self.chapter_summaries
  summaries_file,      \* chapter_summaries.json: the persisted collection
  characters,          \* [Agents -> Seq(CharacterInfo)]: self.characters, in dict order
  characters_file,     \* characters.json
  plot_threads,        \* [Agents -> Seq(PlotThread)]: self.plot_threads, in dict order
  plot_threads_file,   \* plot_threads.json
  chapter_files,       \* the chapter files written by save_chapter
  agent_file,          \* the narrative-log document: [exists, lines]
  pc,                  \* [Agents -> position of the agent process]
  context,             \* [Agents -> the context dict of the current run]
  steps_log,           \* [Agents -> the "执行步骤: <name>" lines logged by the current run]
  run_start,           \* [Agents -> the store and the files as they were when the current run began]
  last_call,           \* the last Record Store / importer call: its arguments and the state before it
  imports              \* the chapter numbers stored after each import of the log so far

vars == <<chapter_summaries, summaries_file, characters, characters_file,
          plot_threads, plot_threads_file, chapter_files, agent_file,
          pc, context, steps_log, run_start, last_call, imports>>

-----------------------------------------------------------------------------
(* Bounds of the model *)

\* chapter numbers a caller may pass to add_chapter_summary
MaxChapter == 3
\* the highest chapter number a chapter-creation run may target
MaxRunChapter == 2
\* lines of a narrative-log document given to the importers
MaxLines == 3
\* imports of the same log in a row
MaxImports == 2

Agents == {"a1", "a2"}

-----------------------------------------------------------------------------
(* Text as ropes *)

Piece(id, v, n) == [id |-> id, v |-> v, n |-> n]

\* a literal of the source with n characters
Lit(id, n) == <<Piece(id, 0, n)>>

Empty == <<>>

\* len(str(k)) for the chapter numbers of the model
Digits(k) == IF k < 10 THEN 1 ELSE IF k < 100 THEN 2 ELSE 3

\* str(k) inside an f-string
Str(k) == <<Piece("num", k, Digits(k))>>

RECURSIVE TextLen(_)
\* len(t)
TextLen(t) == IF t = <<>> THEN 0 ELSE Head(t).n + TextLen(Tail(t))

RECURSIVE TextTake(_, _)
\* t[:k]
TextTake(t, k) ==
  IF k <= 0 \/ t = <<>> THEN <<>>
  ELSE IF Head(t).n <= k THEN <<Head(t)>> \o TextTake(Tail(t), k - Head(t).n)
  ELSE <<Piece(Head(t).id, Head(t).v, k)>>

-----------------------------------------------------------------------------
(* Records of the data model (novel_writing_agent.py, lines 32-59) *)

ChapterSummary(num, title, summary, chars, events, wc, time) ==
  [chapter_num |-> num, title |-> title, content_summary |-> summary,
   characters_involved |-> chars, plot_threads |-> <<>>, key_events |-> events,
   word_count |-> wc, created_time |-> time]

CharacterInfo(name, description) ==
  [name |-> name, description |-> description, current_state |-> "{}"]

PlotThread(id, description, status, priority, first, last) ==
  [id |-> id, description |-> description, status |-> status,
   priority |-> priority, first_chapter |-> first, last_chapter |-> last]

\* datetime.now().isoformat(): readings of the wall clock
Times == {1, 2}

\* the runs of create_next_chapter are not told apart by their clock readings
RunTimes == {1}

Nums(list) == {list[i].chapter_num : i \in 1..Len(list)}

NumSeq(list) == [i \in 1..Len(list) |-> list[i].chapter_num]

-----------------------------------------------------------------------------
(* Record Store: chapter summaries *)

RECURSIVE InsertByNum(_, _)
\* one step of a stable sort on chapter_num: s goes after every element
\* whose key is not greater
InsertByNum(sorted, s) ==
  IF sorted = <<>> THEN <<s>>
  ELSE IF Head(sorted).chapter_num <= s.chapter_num
       THEN <<Head(sorted)>> \o InsertByNum(Tail(sorted), s)
       ELSE <<s>> \o sorted

RECURSIVE SortByNum(_)
\* list.sort(key=lambda x: x.chapter_num): stable, ascending
SortByNum(list) ==
  IF list = <<>> THEN <<>>
  ELSE InsertByNum(SortByNum(SubSeq(list, 1, Len(list) - 1)), list[Len(list)])

\* the summaries of another chapter number, in their order
RemoveNum(list, num) == SelectSeq(list, LAMBDA s : s.chapter_num # num)

\* a bug a maintainer could make: the old summary of the chapter number is kept
UpsertKeepingOld(list, summary) == SortByNum(Append(list, summary))

\* a bug a maintainer could make: the new summary is appended and never sorted
UpsertUnsorted(list, summary) == Append(RemoveNum(list, summary.chapter_num), summary)

\* a bug a maintainer could make: every summary up to the new number is dropped
UpsertDroppingLower(list, summary) ==
  Append(SelectSeq(list, LAMBDA s : s.chapter_num > summary.chapter_num), summary)

\* add_chapter_summary, lines 440-442: the in-memory collection afterwards
Upsert(list, summary) ==
  SortByNum(Append(RemoveNum(list, summary.chapter_num), summary))

\* a bug a maintainer could make: the file is read, merged and written back
SavedMerged(memory, file) ==
  SortByNum(SelectSeq(file, LAMBDA s : s.chapter_num \notin Nums(memory)) \o memory)

\* save_chapter_summaries: the file becomes the collection held in memory,
\* whatever the file held before
SavedCollection(memory, file) == memory

\* a bug a maintainer could make: numbering restarts at 1
LatestAlwaysZero(list) == 0

\* get_latest_chapter_number
LatestChapterNumber(list) ==
  IF list = <<>> THEN 0
  ELSE CHOOSE m \in Nums(list) : \A k \in Nums(list) : k <= m


-----------------------------------------------------------------------------
(* Record Store: queries used by the workflow *)

\* sorted(..., key=chapter_num, reverse=True): stable, descending
RECURSIVE InsertByNumDesc(_, _)
InsertByNumDesc(sorted, s) ==
  IF sorted = <<>> THEN <<s>>
  ELSE IF Head(sorted).chapter_num >= s.chapter_num
       THEN <<Head(sorted)>> \o InsertByNumDesc(Tail(sorted), s)
       ELSE <<s>> \o sorted

RECURSIVE SortByNumDesc(_)
SortByNumDesc(list) ==
  IF list = <<>> THEN <<>>
  ELSE InsertByNumDesc(SortByNumDesc(SubSeq(list, 1, Len(list) - 1)), list[Len(list)])

\* list[:count]
FirstN(list, count) == SubSeq(list, 1, IF Len(list) < count THEN Len(list) ELSE count)

\* list[-count:]
LastN(list, count) ==
  SubSeq(list, IF Len(list) < count THEN 1 ELSE Len(list) - count + 1, Len(list))

\* get_recent_chapters(count)
RecentChapters(list, count) == FirstN(SortByNumDesc(list), count)

\* get_active_plot_threads
ActiveThreads(threads) == SelectSeq(threads, LAMBDA t : t.status = "active")

\* a bug a maintainer could make: a thread trailing by exactly 3 is stale
UnresolvedThreadsFromThree(threads, list) ==
  LET latest == LatestChapterNumber(list)
      stale == SelectSeq(threads,
                 LAMBDA t : t.status = "active" /\ latest - t.last_chapter >= 3)
  IN SelectSeq(stale, LAMBDA t : t.priority = "high")
       \o SelectSeq(stale, LAMBDA t : t.priority # "high")

\* a bug a maintainer could make: the sort is dropped
UnresolvedThreadsInStoreOrder(threads, list) ==
  LET latest == LatestChapterNumber(list)
  IN SelectSeq(threads,
               LAMBDA t : t.status = "active" /\ latest - t.last_chapter > 3)

\* find_unresolved_threads: the active threads that trail the latest stored
\* chapter by more than 3, high priority first (sorted on the boolean
\* priority == "high", reverse=True, which is stable)
UnresolvedThreads(threads, list) ==
  LET latest == LatestChapterNumber(list)
      stale == SelectSeq(threads,
                 LAMBDA t : t.status = "active" /\ latest - t.last_chapter > 3)
  IN SelectSeq(stale, LAMBDA t : t.priority = "high")
       \o SelectSeq(stale, LAMBDA t : t.priority # "high")

-----------------------------------------------------------------------------
(* The outline document (load_outline): read-only input of Review *)

\* characters of the project's outline file
OutlineLen == 30

Outline == IF OutlineLen = 0 THEN Empty ELSE Lit("outline", OutlineLen)

-----------------------------------------------------------------------------
(* Workflow stages as functions on the context dict *)

NoValue == [absent |-> TRUE]

\* context = {'agent': self, 'next_chapter_num': next_chapter_num}, with the
\* position of the loop over the workflow, how the run ended, and the number
\* of add_chapter_summary calls the run has made
NewContext(num, workflow) ==
  [keys |-> {"agent", "next_chapter_num"},
   next_chapter_num |-> num,
   review_result |-> NoValue, check_result |-> NoValue,
   chapter_content |-> Empty, chapter_title |-> Empty,
   saved_path |-> NoValue, chapter_summary |-> NoValue,
   workflow |-> workflow, i |-> 1, outcome |-> "running", failed |-> "none",
   store_writes |-> 0]

\* a bug a maintainer could make: staleness is measured from the target
\* chapter instead of the latest stored one
ReviewAgainstTarget(ctx, summaries, chars, threads) ==
  LET stale == SelectSeq(threads,
                 LAMBDA t : t.status = "active"
                            /\ ctx.next_chapter_num - t.last_chapter > 3)
  IN [ctx EXCEPT
        !.review_result =
           [outline |-> Outline,
            recent_chapters |-> RecentChapters(summaries, 3),
            characters |-> chars,
            active_threads |-> ActiveThreads(threads),
            unresolved_threads |->
              SelectSeq(stale, LAMBDA t : t.priority = "high")
                \o SelectSeq(stale, LAMBDA t : t.priority # "high"),
            next_chapter_num |-> ctx.next_chapter_num],
        !.keys = @ \cup {"review_result"}]

\* ReviewStep.execute
Review(ctx, summaries, chars, threads) ==
  [ctx EXCEPT
     !.review_result =
        [outline |-> Outline,
         recent_chapters |-> RecentChapters(summaries, 3),
         characters |-> chars,
         active_threads |-> ActiveThreads(threads),
         unresolved_threads |-> UnresolvedThreads(threads, summaries),
         next_chapter_num |-> ctx.next_chapter_num],
     !.keys = @ \cup {"review_result"}]

\* a bug a maintainer could make: a stale thread makes the check warn
PreCheckWarning(ctx) ==
  [ctx EXCEPT
     !.check_result =
        [character_check |-> [status |-> "passed", notes |-> <<>>],
         plot_planning |-> [planned_threads |-> <<>>,
                            threads_to_resolve |-> ctx.review_result.unresolved_threads],
         consistency_check |-> [status |-> "passed", issues |-> <<>>],
         warnings |-> <<>>, suggestions |-> <<>>],
     !.keys = @ \cup {"check_result"}]

\* PreWritingCheckStep.execute with its three placeholder checks
PreCheck(ctx) ==
  [ctx EXCEPT
     !.check_result =
        [character_check |-> [status |-> "passed", notes |-> <<>>],
         plot_planning |-> [planned_threads |-> <<>>, threads_to_resolve |-> <<>>],
         consistency_check |-> [status |-> "passed", issues |-> <<>>],
         warnings |-> <<>>, suggestions |-> <<>>],
     !.keys = @ \cup {"check_result"}]

RECURSIVE RecentLines(_)
\* "- 第{chapter_num}章: {content_summary}\n" for every chapter of the list
RecentLines(list) ==
  IF list = <<>> THEN Empty
  ELSE Lit("- di", 3) \o Str(Head(list).chapter_num) \o Lit("zhang: ", 3)
         \o Head(list).content_summary \o Lit("NL", 1) \o RecentLines(Tail(list))

RECURSIVE CharacterLines(_)
\* "- {name}: {description}\n" for every character, in dict order
CharacterLines(chars) ==
  IF chars = <<>> THEN Empty
  ELSE Lit("- ", 2) \o Head(chars).name \o Lit(": ", 2)
         \o Head(chars).description \o Lit("NL", 1) \o CharacterLines(Tail(chars))

\* the priority string inside an f-string
PriorityText(priority) ==
  Lit(priority, CASE priority = "high" -> 4 [] priority = "medium" -> 6 [] OTHER -> 3)

RECURSIVE ThreadLines(_)
\* "- {description} (优先级: {priority})\n" for every stale thread
ThreadLines(threads) ==
  IF threads = <<>> THEN Empty
  ELSE Lit("- ", 2) \o Head(threads).description \o Lit(" (priority: ", 7)
         \o PriorityText(Head(threads).priority)
         \o Lit(")NL", 2) \o ThreadLines(Tail(threads))

\* WritingStep.generate_content_prompt.  The literals of the template are
\* pieces named in ASCII with the character counts of the source:
\* "\n基于以下信息创作第" (10), "章：\n\n## 故事背景\n" (12),
\* "...\n\n## 最近章节情况\n" (15), "- 第" (3), "章: " (3), "\n## 主要角色状态\n" (11),
\* "\n## 需要处理的线索\n" (12), " (优先级: " (7), the closing block (67).
PromptListing(review, chapters) ==
  Lit("prompt head", 10) \o Str(review.next_chapter_num)
    \o Lit("## background", 12) \o TextTake(review.outline, 500)
    \o Lit("...## recent chapters", 15)
    \o RecentLines(chapters)
    \o Lit("## characters", 11) \o CharacterLines(review.characters)
    \o Lit("## threads", 12) \o ThreadLines(review.unresolved_threads)
    \o Lit("## requirements", 67)

\* the chapters listed are review['recent_chapters'][-2:]
GenerateContentPrompt(ctx) ==
  PromptListing(ctx.review_result, LastN(ctx.review_result.recent_chapters, 2))

\* WritingStep.execute of the default workflow (no content_generator)
Writing(ctx) ==
  [ctx EXCEPT !.chapter_content = GenerateContentPrompt(ctx),
              !.keys = @ \cup {"chapter_content"}]

\* FinalizeStep.execute, lines 227-228: f"第{chapter_num}章" when no title was given
WithTitle(ctx) ==
  IF "chapter_title" \in ctx.keys THEN ctx
  ELSE [ctx EXCEPT !.chapter_title =
                      Lit("di", 1) \o Str(ctx.review_result.next_chapter_num) \o Lit("zhang", 1),
                   !.keys = @ \cup {"chapter_title"}]

\* a bug a maintainer could make: content of exactly 200 characters is cut too
SummaryTextFrom200(content) ==
  IF TextLen(content) >= 200 THEN TextTake(content, 200) \o Lit("...", 3) ELSE content

\* content[:200] + "..." if len(content) > 200 else content
SummaryText(content) ==
  IF TextLen(content) > 200 THEN TextTake(content, 200) \o Lit("...", 3) ELSE content

\* FinalizeStep.create_chapter_summary
CreateChapterSummary(ctx, time) ==
  ChapterSummary(ctx.review_result.next_chapter_num, ctx.chapter_title,
                 SummaryText(ctx.chapter_content), <<>>, <<>>,
                 TextLen(ctx.chapter_content), time)

-----------------------------------------------------------------------------
(* The narrative-log document *)

\* One line of a markdown document.  Kinds:
\*   "logBold"    ## **剧情日志**            "logPlain"  ## 剧情日志
\*   "chapter"    ### **第{num}章：{title}**  "volume"    ## **第{num}卷 ...
\*   "escChapter" ### 第\d章{title}   (a backslash and the letter d, literally)
\*   "plot"       * **剧情进展:** {txt}      "charHead"  * **角色状态:** {txt}
\*   "clues"      * **关键线索:** {txt}      "charEntry" * **{title} (...):** ...
\*   "text"       any other prose            "blank"     an empty line
\*   "indentChapter"  a chapter heading after one space of indentation
Line(k, num, title, txt) == [k |-> k, num |-> num, title |-> title, txt |-> txt]

NoFile == [exists |-> FALSE, lines |-> <<>>]

File(lines) == [exists |-> TRUE, lines |-> lines]

\* the log_entry f-string of update_plot_log, line by line.  It begins and
\* ends with a line break: its first line continues the heading's line, and
\* what followed the heading text on its line (nothing, for a heading alone
\* on its line) becomes the line after the entry
LogEntry(summary) ==
  << Line("chapter", summary.chapter_num, summary.title, Empty),
     Line("blank", 0, Empty, Empty),
     Line("plot", 0, Empty, summary.content_summary),
     Line("charHead", 0, Empty, Empty),
     Line("clues", 0, Empty, Empty),
     Line("blank", 0, Empty, Empty) >>

RECURSIVE ReplaceLogHeading(_, _)
\* content.replace("## 剧情日志", f"## 剧情日志{log_entry}"): every occurrence
\* of the plain heading text is followed by the entry
ReplaceLogHeading(lines, entry) ==
  IF lines = <<>> THEN <<>>
  ELSE IF Head(lines).k = "logPlain"
       THEN <<Head(lines)>> \o entry \o ReplaceLogHeading(Tail(lines), entry)
       ELSE <<Head(lines)>> \o ReplaceLogHeading(Tail(lines), entry)

\* "## 剧情日志" in content
HasPlainHeading(lines) == \E i \in 1..Len(lines) : lines[i].k = "logPlain"

\* update_plot_log.  A document is '\n'.join(lines); the empty document has no
\* line, and content + "\n\n## 剧情日志..." gives it an empty first line
UpdatePlotLog(file, summary) ==
  IF ~file.exists THEN file
  ELSE IF HasPlainHeading(file.lines)
       THEN File(ReplaceLogHeading(file.lines, LogEntry(summary)))
       ELSE File((IF file.lines = <<>> THEN <<Line("blank", 0, Empty, Empty)>>
                  ELSE file.lines)
                   \o <<Line("blank", 0, Empty, Empty),
                        Line("logPlain", 0, Empty, Empty)>>
                   \o LogEntry(summary))

\* a bug a maintainer could make: the chapter file is never written
SaveChapterSkipped(files, num, title, content) == files

\* save_chapter: the file named by (num, title) is created or overwritten
SaveChapter(files, num, title, content) ==
  {f \in files : ~(f.num = num /\ f.title = title)}
    \cup {[num |-> num, title |-> title, content |-> content]}

-----------------------------------------------------------------------------
(* The agent process: construction and create_next_chapter *)

\* a bug a maintainer could make: the chapter is written before the checks
WorkflowWritingFirst == <<"review", "writing", "pre_check", "finalize">>

\* create_default_workflow
DefaultWorkflow == <<"review", "pre_check", "writing", "finalize">>

\* the step the loop of create_next_chapter is at
CurrentStep(ctx) == ctx.workflow[ctx.i]

\* the loop moves on; after the last step create_next_chapter returns
Advance(ctx) ==
  [ctx EXCEPT !.i = @ + 1,
              !.outcome = IF ctx.i = Len(ctx.workflow) THEN "returned" ELSE @]

AfterStep(ctx) == IF ctx.i = Len(ctx.workflow) THEN "idle" ELSE "step"

\* NovelWritingAgent.__init__: the three collections are loaded from their files
Construct(a) ==
  /\ pc[a] = "none"
  /\ chapter_summaries' = [chapter_summaries EXCEPT ![a] = summaries_file]
  /\ characters' = [characters EXCEPT ![a] = characters_file]
  /\ plot_threads' = [plot_threads EXCEPT ![a] = plot_threads_file]
  /\ pc' = [pc EXCEPT ![a] = "idle"]
  /\ UNCHANGED <<summaries_file, characters_file, plot_threads_file, chapter_files,
                 agent_file, context, steps_log, run_start, last_call, imports>>

\* what a run can change, as it was when the run began
Snapshot(summaries, file, files, log) ==
  [summaries |-> summaries, summaries_file |-> file, chapter_files |-> files,
   agent_file |-> log]

\* create_next_chapter(custom_workflow), lines 473-481: the chapter after the
\* latest stored one, as long as it is not beyond the chapter `last`
StartRunWith(a, last, workflow) ==
  /\ pc[a] = "idle"
  /\ LatestChapterNumber(chapter_summaries[a]) + 1 <= last
  /\ context' = [context EXCEPT ![a] =
                   NewContext(LatestChapterNumber(chapter_summaries[a]) + 1,
                              workflow)]
  /\ steps_log' = [steps_log EXCEPT ![a] = <<>>]
  /\ run_start' = [run_start EXCEPT ![a] =
                     Snapshot(chapter_summaries[a], summaries_file, chapter_files, agent_file)]
  /\ pc' = [pc EXCEPT ![a] = "step"]
  /\ UNCHANGED <<chapter_summaries, summaries_file, characters, characters_file,
                 plot_threads, plot_threads_file, chapter_files, agent_file,
                 last_call, imports>>

\* create_next_chapter() with the default workflow
StartRun(a) == StartRunWith(a, MaxRunChapter, DefaultWorkflow)

\* a bug a maintainer could make: the step tidies the thread store and saves
\* it, so that only the active threads are kept
PureStepPruningThreads(a, name, ctx) ==
  /\ pc[a] = "step"
  /\ CurrentStep(context[a]) = name
  /\ steps_log' = [steps_log EXCEPT ![a] = Append(@, name)]
  /\ context' = [context EXCEPT ![a] = Advance(ctx)]
  /\ pc' = [pc EXCEPT ![a] = AfterStep(context[a])]
  /\ plot_threads' = [plot_threads EXCEPT ![a] = ActiveThreads(@)]
  /\ plot_threads_file' = ActiveThreads(plot_threads[a])
  /\ UNCHANGED <<chapter_summaries, summaries_file, characters, characters_file,
                 chapter_files, agent_file, run_start, last_call, imports>>

\* one pass of the loop whose step only reads the store and writes the context
PureStep(a, name, ctx) ==
  /\ pc[a] = "step"
  /\ CurrentStep(context[a]) = name
  /\ steps_log' = [steps_log EXCEPT ![a] = Append(@, name)]
  /\ context' = [context EXCEPT ![a] = Advance(ctx)]
  /\ pc' = [pc EXCEPT ![a] = AfterStep(context[a])]
  /\ UNCHANGED <<chapter_summaries, summaries_file, characters, characters_file,
                 plot_threads, plot_threads_file, chapter_files, agent_file,
                 run_start, last_call, imports>>

StepReview(a) ==
  PureStep(a, "review",
           Review(context[a], chapter_summaries[a], characters[a], plot_threads[a]))

StepPreCheck(a) ==
  /\ "review_result" \in context[a].keys
  /\ PureStep(a, "pre_check", PreCheck(context[a]))

StepWriting(a) ==
  /\ {"review_result", "check_result"} \subseteq context[a].keys
  /\ PureStep(a, "writing", Writing(context[a]))

\* FinalizeStep.execute, lines 222-231: the title is fixed and the chapter file written
FinalizeSaveChapter(a) ==
  /\ pc[a] = "step"
  /\ CurrentStep(context[a]) = "finalize"
  /\ "review_result" \in context[a].keys
  /\ LET ctx == WithTitle(context[a])
     IN /\ chapter_files' = SaveChapter(chapter_files, ctx.review_result.next_chapter_num,
                                        ctx.chapter_title, ctx.chapter_content)
        /\ context' = [context EXCEPT ![a] =
                         [ctx EXCEPT !.saved_path =
                            [num |-> ctx.review_result.next_chapter_num,
                             title |-> ctx.chapter_title]]]
  /\ steps_log' = [steps_log EXCEPT ![a] = Append(@, "finalize")]
  /\ pc' = [pc EXCEPT ![a] = "saved"]
  /\ UNCHANGED <<chapter_summaries, summaries_file, characters, characters_file,
                 plot_threads, plot_threads_file, agent_file, run_start,
                 last_call, imports>>

\* FinalizeStep.execute, lines 234-235: the summary is built and upserted;
\* add_chapter_summary ends by writing the whole collection to its file
FinalizeAddSummary(a, time) ==
  /\ pc[a] = "saved"
  /\ LET summary == CreateChapterSummary(context[a], time)
     IN /\ chapter_summaries' = [chapter_summaries EXCEPT ![a] = Upsert(@, summary)]
        /\ summaries_file' = SavedCollection(Upsert(chapter_summaries[a], summary),
                                              summaries_file)
        /\ context' = [context EXCEPT ![a] =
                         [@ EXCEPT !.chapter_summary = summary,
                                   !.store_writes = @ + 1]]
  /\ pc' = [pc EXCEPT ![a] = "added"]
  /\ UNCHANGED <<characters, characters_file, plot_threads, plot_threads_file,
                 chapter_files, agent_file, steps_log, run_start, last_call, imports>>

\* FinalizeStep.execute, lines 238-243: the log entry, then the two context keys
FinalizeUpdateLog(a) ==
  /\ pc[a] = "added"
  /\ agent_file' = UpdatePlotLog(agent_file, context[a].chapter_summary)
  /\ context' = [context EXCEPT ![a] =
                   Advance([@ EXCEPT !.keys = @ \cup {"saved_path", "chapter_summary"}])]
  /\ pc' = [pc EXCEPT ![a] = AfterStep(context[a])]
  /\ UNCHANGED <<chapter_summaries, summaries_file, characters, characters_file,
                 plot_threads, plot_threads_file, chapter_files, steps_log,
                 run_start, last_call, imports>>

\* the place inside the run where an exception is raised
FailurePoint(a) ==
  CASE pc[a] = "saved" -> "finalize:add_chapter_summary"
    [] pc[a] = "added" -> "finalize:update_plot_log"
    [] OTHER -> IF CurrentStep(context[a]) = "finalize" THEN "finalize:save_chapter"
                ELSE CurrentStep(context[a])

\* a bug a maintainer could make: the exception is logged and swallowed, and
\* the loop goes on with the same step
StepRaisesAndRetries(a) ==
  /\ pc[a] \in {"step", "saved", "added"}
  /\ context' = [context EXCEPT ![a] =
                   [@ EXCEPT !.outcome = "raised", !.failed = FailurePoint(a)]]
  /\ UNCHANGED <<chapter_summaries, summaries_file, characters, characters_file,
                 plot_threads, plot_threads_file, chapter_files, agent_file,
                 pc, steps_log, run_start, last_call, imports>>

\* the except clause of create_next_chapter, lines 488-490: the step's
\* exception (an I/O error of a file access, a KeyError of a missing context
\* key, an error of an overriding hook) is logged and re-raised to the caller;
\* nothing the step did before is undone
StepRaises(a) ==
  /\ pc[a] \in {"step", "saved", "added"}
  /\ steps_log' = [steps_log EXCEPT ![a] =
                     IF pc[a] = "step" THEN Append(@, CurrentStep(context[a])) ELSE @]
  /\ context' = [context EXCEPT ![a] =
                   [@ EXCEPT !.outcome = "raised", !.failed = FailurePoint(a)]]
  /\ pc' = [pc EXCEPT ![a] = "idle"]
  /\ UNCHANGED <<chapter_summaries, summaries_file, characters, characters_file,
                 plot_threads, plot_threads_file, chapter_files, agent_file,
                 run_start, last_call, imports>>

\* add_chapter_summary inside Finalize when save_chapter_summaries raises:
\* self.chapter_summaries is already replaced, the file is not written
AddSummarySaveRaises(a, time) ==
  /\ pc[a] = "saved"
  /\ LET summary == CreateChapterSummary(context[a], time)
     IN /\ chapter_summaries' = [chapter_summaries EXCEPT ![a] = Upsert(@, summary)]
        /\ context' = [context EXCEPT ![a] =
                         [@ EXCEPT !.chapter_summary = summary,
                                   !.store_writes = @ + 1,
                                   !.outcome = "raised",
                                   !.failed = "finalize:save_chapter_summaries"]]
  /\ pc' = [pc EXCEPT ![a] = "idle"]
  /\ UNCHANGED <<summaries_file, characters, characters_file, plot_threads,
                 plot_threads_file, chapter_files, agent_file, steps_log,
                 run_start, last_call, imports>>

NoCall == [op |-> "none"]

\* the narrative logs of a project whose data directory is empty
InitialLogs ==
  { NoFile, File(<<>>),
    File(<<Line("logPlain", 0, Empty, Empty)>>),
    File(<<Line("logBold", 0, Empty, Empty)>>) }

\* a project whose three JSON files hold one of the given collections (a
\* file that is missing is loaded as the empty collection) and whose
\* narrative log is one of the given documents; no agent process exists yet
InitWith(logs, stores, casts, threads) ==
  /\ chapter_summaries = [a \in Agents |-> <<>>]
  /\ summaries_file \in stores
  /\ characters = [a \in Agents |-> <<>>]
  /\ characters_file \in casts
  /\ plot_threads = [a \in Agents |-> <<>>]
  /\ plot_threads_file \in threads
  /\ chapter_files = {}
  /\ agent_file \in logs
  /\ pc = [a \in Agents |-> "none"]
  /\ context = [a \in Agents |-> [NewContext(0, <<>>) EXCEPT !.outcome = "none"]]
  /\ steps_log = [a \in Agents |-> <<>>]
  /\ run_start = [a \in Agents |-> Snapshot(<<>>, <<>>, {}, NoFile)]
  /\ last_call = NoCall
  /\ imports = <<>>

InitProject(logs) == InitWith(logs, {<<>>}, {<<>>}, {<<>>})

\* a project made by init_project, which creates an empty narrative log
InitFlow == InitProject({File(<<>>)})

InitSolo == InitProject(InitialLogs)

\* what one agent process can do next
AgentStep(a) ==
  \/ Construct(a)
  \/ StartRun(a)
  \/ StepReview(a)
  \/ StepPreCheck(a)
  \/ StepWriting(a)
  \/ FinalizeSaveChapter(a)
  \/ \E time \in RunTimes : FinalizeAddSummary(a, time)
  \/ FinalizeUpdateLog(a)
  \/ StepRaises(a)
  \/ \E time \in RunTimes : AddSummarySaveRaises(a, time)

NextFlow == \E a \in Agents : AgentStep(a)

\* two agent processes on one project, each running create_next_chapter
SpecFlow == InitFlow /\ [][NextFlow]_vars

\* the process that owns the store under the single-writer discipline
Owner == "a1"

NextSolo == AgentStep(Owner)

\* one agent process alone on the project
SpecSolo == InitSolo /\ [][NextSolo]_vars

-----------------------------------------------------------------------------
(* The Record Store called directly: add_chapter_summary with any summary *)

\* the summaries a caller passes: two different summaries for every chapter
\* number, which differ in every field but the number
InputSummaries ==
  {ChapterSummary(n, Lit("title A", 1), Lit("summary A", 9), <<Lit("Zhang", 2)>>,
                  <<Lit("event A", 12)>>, 0, 1) : n \in 1..MaxChapter}
  \cup
  {ChapterSummary(n, Lit("title B", 2), Lit("summary B", 5), <<>>, <<>>, 5, 2) :
     n \in 1..MaxChapter}

\* add_chapter_summary(summary), lines 437-443
AddChapterSummary(a, summary) ==
  /\ pc[a] = "idle"
  /\ chapter_summaries' = [chapter_summaries EXCEPT ![a] = Upsert(@, summary)]
  /\ summaries_file' = SavedCollection(Upsert(chapter_summaries[a], summary),
                                        summaries_file)
  /\ last_call' = [op |-> "add_chapter_summary", agent |-> a, summary |-> summary,
                   before |-> chapter_summaries[a], file_before |-> summaries_file,
                   raised |-> FALSE]
  /\ UNCHANGED <<characters, characters_file, plot_threads, plot_threads_file,
                 chapter_files, agent_file, pc, context, steps_log, run_start, imports>>

\* add_chapter_summary(summary) when save_chapter_summaries raises (the
\* file cannot be written): the collection in memory is already replaced
AddChapterSummaryRaises(a, summary) ==
  /\ pc[a] = "idle"
  /\ chapter_summaries' = [chapter_summaries EXCEPT ![a] = Upsert(@, summary)]
  /\ last_call' = [op |-> "add_chapter_summary", agent |-> a, summary |-> summary,
                   before |-> chapter_summaries[a], file_before |-> summaries_file,
                   raised |-> TRUE]
  /\ UNCHANGED <<summaries_file, characters, characters_file, plot_threads,
                 plot_threads_file, chapter_files, agent_file, pc, context,
                 steps_log, run_start, imports>>


InitStore == InitProject({NoFile})

NextStore ==
  \/ Construct(Owner)
  \/ \E summary \in InputSummaries : AddChapterSummary(Owner, summary)
  \/ \E summary \in InputSummaries : AddChapterSummaryRaises(Owner, summary)

\* one agent process whose store starts empty and receives add_chapter_summary calls
SpecStore == InitStore /\ [][NextStore]_vars

-----------------------------------------------------------------------------
(* Properties of the Record Store *)

StrictlyAscending(list) ==
  \A i \in 1..(Len(list) - 1) : list[i].chapter_num < list[i + 1].chapter_num

\* C3: after any sequence of add_chapter_summary calls on a store that
\* started empty, the collection in memory and the persisted copy hold at most
\* one summary per chapter number, in strictly ascending chapter-number order.
C3_OnePerNumberAscending ==
  /\ \A a \in Agents : StrictlyAscending(chapter_summaries[a])
  /\ StrictlyAscending(summaries_file)

\* a call replaced the summary of the lowest of several stored chapter numbers
C3_Witness ==
  /\ last_call.op = "add_chapter_summary"
  /\ ~last_call.raised
  /\ Len(last_call.before) >= 2
  /\ last_call.summary.chapter_num = last_call.before[1].chapter_num
  /\ last_call.summary # last_call.before[1]
  /\ Len(summaries_file) >= 2

\* C4: add_chapter_summary(s) replaces by chapter number: afterwards exactly
\* one stored summary has s.chapter_num and it is s itself, the summaries of
\* every other chapter number are the ones stored before, none is deleted, and
\* the file holds the same collection (or, when the write raised, what it held).
C4_FullReplacement ==
  last_call.op = "add_chapter_summary" =>
    LET s == last_call.summary
        after == chapter_summaries[last_call.agent]
    IN /\ SelectSeq(after, LAMBDA x : x.chapter_num = s.chapter_num) = <<s>>
       /\ RemoveNum(after, s.chapter_num) = RemoveNum(last_call.before, s.chapter_num)
       /\ summaries_file = IF last_call.raised THEN last_call.file_before ELSE after

\* a call replaced a different summary of its chapter number while summaries
\* of a lower and of a higher chapter number were stored
C4_Witness ==
  /\ last_call.op = "add_chapter_summary"
  /\ ~last_call.raised
  /\ \E i, j, k \in 1..Len(last_call.before) :
       /\ last_call.before[i].chapter_num = last_call.summary.chapter_num
       /\ last_call.before[i] # last_call.summary
       /\ last_call.before[j].chapter_num < last_call.summary.chapter_num
       /\ last_call.before[k].chapter_num > last_call.summary.chapter_num

-----------------------------------------------------------------------------
(* Properties of the workflow *)

IsPrefix(p, q) == Len(p) <= Len(q) /\ p = SubSeq(q, 1, Len(p))

\* the context key a stage writes when it returns
OutputKey(step) ==
  CASE step = "review" -> "review_result"
    [] step = "pre_check" -> "check_result"
    [] step = "writing" -> "chapter_content"
    [] OTHER -> "chapter_summary"

\* C1: a run of create_next_chapter with the default workflow executes
\* Review, PreCheck, Write, Finalize in this order: the steps a run has started
\* are a prefix of that sequence (no stage twice, none skipped, no retry), a
\* stage is started only when every stage before it has returned its output,
\* and a run that returned has executed all four.
C1_StagesInOrder ==
  \A a \in Agents :
    /\ IsPrefix(steps_log[a], <<"review", "pre_check", "writing", "finalize">>)
    /\ \A j \in 1..(Len(steps_log[a]) - 1) : OutputKey(steps_log[a][j]) \in context[a].keys
    /\ pc[a] = "step" => Len(steps_log[a]) = context[a].i - 1
    /\ context[a].outcome = "returned" =>
         steps_log[a] = <<"review", "pre_check", "writing", "finalize">>

\* a run went through all four stages and returned
C1_Witness ==
  \E a \in Agents :
    /\ context[a].outcome = "returned"
    /\ steps_log[a] = <<"review", "pre_check", "writing", "finalize">>
    /\ "chapter_summary" \in context[a].keys

\* the store and the files are as they were when the run of a began
NothingWritten(a) ==
  /\ chapter_summaries[a] = run_start[a].summaries
  /\ summaries_file = run_start[a].summaries_file
  /\ chapter_files = run_start[a].chapter_files
  /\ agent_file = run_start[a].agent_file

\* what Review puts in the context of a run that began on the given store
ReviewOutput(a) ==
  Review(NewContext(context[a].next_chapter_num, DefaultWorkflow),
         run_start[a].summaries, characters[a], plot_threads[a]).review_result

\* C2: when a stage raises, the run is over: the step that raised is the last
\* one started, the loop has not moved on, the caller gets the exception and
\* nothing is retried; and when PreCheck raises, the context still holds what
\* Review produced, Finalize has not run, and no chapter file, summary or log
\* entry has been written.
C2_AbortOnRaise ==
  context[Owner].outcome = "raised" =>
    /\ pc[Owner] = "idle"
    /\ Len(steps_log[Owner]) = context[Owner].i
    /\ steps_log[Owner][Len(steps_log[Owner])] = CurrentStep(context[Owner])
    /\ IsPrefix(steps_log[Owner], context[Owner].workflow)
    /\ context[Owner].failed = "pre_check" =>
         /\ "review_result" \in context[Owner].keys
         /\ context[Owner].review_result = ReviewOutput(Owner)
         /\ steps_log[Owner] = <<"review", "pre_check">>
         /\ context[Owner].store_writes = 0
         /\ NothingWritten(Owner)

\* PreCheck raised in a run that began on a store holding a chapter
C2_Witness ==
  /\ context[Owner].outcome = "raised"
  /\ context[Owner].failed = "pre_check"
  /\ run_start[Owner].summaries # <<>>
  /\ context[Owner].review_result.recent_chapters # <<>>

\* n is 1 on an empty collection and the highest stored chapter number plus 1 otherwise
FollowsHighest(n, list) ==
  \/ list = <<>> /\ n = 1
  \/ (n - 1) \in Nums(list) /\ \A k \in Nums(list) : k <= n - 1

\* C5: nothing protects the file of chapter summaries from a second process.
\* A run numbers its chapter from the collection its own process holds, and a
\* write replaces the file by the writer's whole collection; what the file
\* held and the writer had not loaded is gone.
C5_WholeCollectionWrites ==
  [][ /\ \A a \in Agents :
           context'[a].outcome = "running" =>
             FollowsHighest(context'[a].next_chapter_num, run_start'[a].summaries)
      /\ \A a \in Agents :
           (pc[a] = "saved" /\ pc'[a] = "added") =>
             /\ summaries_file' = chapter_summaries'[a]
             /\ Nums(summaries_file') = Nums(chapter_summaries[a])
                                          \cup {context'[a].chapter_summary.chapter_num}
      /\ summaries_file' # summaries_file =>
           \E a \in Agents : pc[a] = "saved" /\ pc'[a] = "added"
    ]_vars

\* both processes have finished a run, the file is the collection of the
\* last writer, and a chapter the other process wrote and persisted is not in it
C5_Witness ==
  \E a, b \in Agents :
    /\ a # b
    /\ context[a].outcome = "returned"
    /\ context[b].outcome = "returned"
    /\ summaries_file = chapter_summaries[b]
    /\ context[a].chapter_summary.chapter_num \notin Nums(summaries_file)

\* C6: a run that returned targeted the chapter after the highest stored
\* chapter number (1 on an empty store) and called add_chapter_summary once:
\* the store is what it was when the run began plus one summary, which has the
\* target number, and the file holds that collection.
C6_OneNewChapter ==
  context[Owner].outcome = "returned" =>
    LET before == run_start[Owner].summaries
        n == context[Owner].next_chapter_num
    IN /\ FollowsHighest(n, before)
       /\ context[Owner].store_writes = 1
       /\ context[Owner].chapter_summary.chapter_num = n
       /\ chapter_summaries[Owner] = Append(before, context[Owner].chapter_summary)
       /\ summaries_file = chapter_summaries[Owner]

\* a run returned that began on a store already holding a chapter
C6_Witness ==
  /\ context[Owner].outcome = "returned"
  /\ run_start[Owner].summaries # <<>>
  /\ Len(chapter_summaries[Owner]) = Len(run_start[Owner].summaries) + 1

\* the chapter file of the run of a is in place
ChapterFileWritten(a) ==
  [num |-> context[a].next_chapter_num, title |-> context[a].chapter_title,
   content |-> context[a].chapter_content] \in chapter_files

\* the summary of the run of a is in the collection in memory
SummaryInMemory(a) ==
  chapter_summaries[a] = Append(run_start[a].summaries, context[a].chapter_summary)

\* C7: Finalize writes the chapter file, builds the summary, upserts and
\* persists it, and appends the log entry, in this order and without
\* atomicity: wherever it raises, the effects before that point are in place,
\* the later ones have not happened, and the run ends with the exception.
C7_FinalizeNotAtomic ==
  LET ctx == context[Owner]
      start == run_start[Owner]
      at(point) == ctx.outcome = "raised" /\ ctx.failed = point
  IN /\ (at("finalize:save_chapter") \/ (pc[Owner] = "step" /\ ctx.outcome = "running"))
          => NothingWritten(Owner)
     /\ (at("finalize:add_chapter_summary") \/ pc[Owner] = "saved")
          => /\ ChapterFileWritten(Owner)
             /\ chapter_summaries[Owner] = start.summaries
             /\ summaries_file = start.summaries_file
             /\ agent_file = start.agent_file
     /\ at("finalize:save_chapter_summaries")
          => /\ ChapterFileWritten(Owner)
             /\ SummaryInMemory(Owner)
             /\ summaries_file = start.summaries_file
             /\ agent_file = start.agent_file
     /\ (at("finalize:update_plot_log") \/ pc[Owner] = "added")
          => /\ ChapterFileWritten(Owner)
             /\ SummaryInMemory(Owner)
             /\ summaries_file = chapter_summaries[Owner]
             /\ agent_file = start.agent_file
     /\ ctx.outcome = "returned"
          => /\ ChapterFileWritten(Owner)
             /\ SummaryInMemory(Owner)
             /\ summaries_file = chapter_summaries[Owner]
             /\ agent_file = UpdatePlotLog(start.agent_file, ctx.chapter_summary)
     /\ ctx.outcome = "raised" => pc[Owner] = "idle"

\* update_plot_log raised after the chapter file and the summary were written
\* to a project whose narrative log exists
C7_Witness ==
  /\ context[Owner].outcome = "raised"
  /\ context[Owner].failed = "finalize:update_plot_log"
  /\ ChapterFileWritten(Owner)
  /\ context[Owner].chapter_summary \in {summaries_file[i] : i \in 1..Len(summaries_file)}
  /\ agent_file.exists

-----------------------------------------------------------------------------
(* The text of a document, as the regular expressions of the importers see it *)

Star == Piece("*", 0, 1)

Stars == Piece("**", 0, 2)

Space == Piece(" ", 0, 1)

Newline == Piece("NL", 0, 1)

Colon == Piece(":", 0, 1)

\* the text of one line.  The labels are pieces named in ASCII: "log title"
\* is 剧情日志, "plot label" 剧情进展, "state label" 角色状态, "clue label"
\* 关键线索, "di" 第, "zhang" 章, "juan" 卷; "\\d" is a backslash and a d
LineText(line) ==
  CASE line.k = "logBold" ->
         <<Piece("##", 0, 2), Space, Stars, Piece("log title", 0, 4), Stars>>
    [] line.k = "logPlain" -> <<Piece("##", 0, 2), Space, Piece("log title", 0, 4)>>
    [] line.k = "chapter" ->
         <<Piece("###", 0, 3), Space, Stars, Piece("di", 0, 1)>> \o Str(line.num)
           \o <<Piece("zhang", 0, 1), Colon>> \o line.title \o <<Stars>>
    [] line.k = "indentChapter" ->
         <<Space, Piece("###", 0, 3), Space, Stars, Piece("di", 0, 1)>> \o Str(line.num)
           \o <<Piece("zhang", 0, 1), Colon>> \o line.title \o <<Stars>>
    [] line.k = "volume" ->
         <<Piece("##", 0, 2), Space, Stars, Piece("di", 0, 1)>> \o Str(line.num)
           \o <<Piece("juan", 0, 1), Stars>>
    [] line.k = "escChapter" ->
         <<Piece("###", 0, 3), Space, Piece("di", 0, 1), Piece("\\d", 0, 2),
           Piece("zhang", 0, 1)>> \o line.title
    [] line.k = "plot" ->
         <<Star, Space, Stars, Piece("plot label", 0, 4), Colon, Stars, Space>> \o line.txt
    [] line.k = "charHead" ->
         <<Star, Space, Stars, Piece("state label", 0, 4), Colon, Stars, Space>> \o line.txt
    [] line.k = "clues" ->
         <<Star, Space, Stars, Piece("clue label", 0, 4), Colon, Stars, Space>> \o line.txt
    [] line.k = "charEntry" ->
         <<Piece(" ", 0, 4), Star, Space, Stars>> \o line.title
           \o <<Space, Piece("(", 0, 1), Piece("level", 0, 2), Piece(")", 0, 1),
                Colon, Stars, Space>> \o line.txt
    [] line.k = "text" -> line.txt
    [] OTHER -> Empty

RECURSIVE JoinLines(_)
\* '\n'.join(lines)
JoinLines(lines) ==
  IF lines = <<>> THEN Empty
  ELSE IF Len(lines) = 1 THEN LineText(lines[1])
  ELSE LineText(Head(lines)) \o <<Newline>> \o JoinLines(Tail(lines))

IsStar(p) == p.id \in {"*", "**"}

IsSpace(p) == p.id \in {" ", "NL"}

RECURSIVE StripLeft(_)
StripLeft(t) == IF t # <<>> /\ IsSpace(Head(t)) THEN StripLeft(Tail(t)) ELSE t

RECURSIVE StripRight(_)
StripRight(t) ==
  IF t # <<>> /\ IsSpace(t[Len(t)]) THEN StripRight(SubSeq(t, 1, Len(t) - 1)) ELSE t

\* str.strip()
Strip(t) == StripRight(StripLeft(t))

\* the first position from `from` on whose piece is one of ids; Len(t) + 1 if none
FirstAt(t, from, ids) ==
  LET S == {i \in from..Len(t) : t[i].id \in ids}
  IN IF S = {} THEN Len(t) + 1 ELSE CHOOSE i \in S : \A j \in S : i <= j

\* where the group after \*\s*\*\*{label}[：:]?\*\* begins, for the label at i
CaptureStart(t, i) == IF i + 1 <= Len(t) /\ t[i + 1].id = ":" THEN i + 3 ELSE i + 2

\* the positions of a label that \*\s*\*\*{label}[：:]?\*\* matches
FieldStarts(t, label) ==
  {i \in 1..Len(t) :
     /\ t[i].id = label
     /\ i >= 3 /\ t[i - 1].id = "**"
     /\ \/ IsStar(t[i - 2])
        \/ i >= 4 /\ IsSpace(t[i - 2]) /\ IsStar(t[i - 3])
     /\ CaptureStart(t, i) - 1 <= Len(t)
     /\ t[CaptureStart(t, i) - 1].id = "**"}

\* \s*([^*]+) after the label at i: everything up to the next asterisk
Capture(t, i) ==
  SubSeq(t, CaptureStart(t, i), FirstAt(t, CaptureStart(t, i), {"*", "**"}) - 1)

\* re.search(r'\*\s*\*\*{label}[：:]?\*\*\s*([^*]+)', t): whether it matched,
\* and group(1).strip()
FieldMatch(t, label) ==
  LET S == {i \in FieldStarts(t, label) : TextLen(Capture(t, i)) >= 1}
  IN IF S = {} THEN [found |-> FALSE, text |-> Empty]
     ELSE [found |-> TRUE,
           text |-> Strip(Capture(t, CHOOSE i \in S : \A j \in S : i <= j))]

RECURSIVE CharMatches(_, _)
\* re.findall(r'\*\*([^(（]+)(?:\s*[（(]([^)）]*)[）)])?[：:]?\*\*', t), group 1
\* of every match, stripped.  Group 1 is greedy and may run over asterisks and
\* line ends: it reaches to the first opening parenthesis when a closing
\* parenthesis and ** follow it, and otherwise to the last ** before that
\* parenthesis.
CharMatches(t, from) ==
  LET p == FirstAt(t, from, {"**"})
      lp == FirstAt(t, p + 1, {"("})
      rp == FirstAt(t, lp + 1, {")"})
      close == IF rp + 1 <= Len(t) /\ t[rp + 1].id = ":" THEN rp + 2 ELSE rp + 1
      withParen == /\ lp <= Len(t) /\ rp <= Len(t)
                   /\ TextLen(SubSeq(t, p + 1, lp - 1)) >= 1
                   /\ close <= Len(t) /\ t[close].id = "**"
      closers == {q \in (p + 2)..(lp - 1) : t[q].id = "**"}
      last == CHOOSE q \in closers : \A r \in closers : r <= q
  IN IF p > Len(t) THEN <<>>
     ELSE IF withParen
          THEN <<Strip(SubSeq(t, p + 1, lp - 1))>> \o CharMatches(t, close + 1)
     ELSE IF closers # {}
          THEN <<Strip(SubSeq(t, p + 1, last - 1))>> \o CharMatches(t, last + 1)
     ELSE CharMatches(t, p + 1)

\* simple_migrate.py, line 78: the names that are kept
AcceptName(name) == name # <<>> /\ Head(name).id # "di" /\ TextLen(name) < 15

\* simple_migrate.py, lines 74-79 and 92: characters[:5]
SimpleCharacters(t) == FirstN(SelectSeq(CharMatches(t, 1), AcceptName), 5)

-----------------------------------------------------------------------------
(* simple_migrate.py: test_and_migrate *)

\* content.find("## **剧情日志**"), else content.find("## 剧情日志"): the
\* line of the first heading, 0 when there is none
LogStart(lines) ==
  LET bold == {i \in 1..Len(lines) : lines[i].k = "logBold"}
      plain == {i \in 1..Len(lines) : lines[i].k = "logPlain"}
      first(S) == CHOOSE i \in S : \A j \in S : i <= j
  IN IF bold # {} THEN first(bold) ELSE IF plain # {} THEN first(plain) ELSE 0

\* content[log_start:].split('\n'); without a heading log_start is -1 and the
\* slice is the last character of the file, which holds no chapter heading
LogLines(lines) ==
  IF LogStart(lines) = 0 THEN <<>> ELSE SubSeq(lines, LogStart(lines), Len(lines))

RECURSIVE SimpleScan(_, _, _)
\* the loop of lines 34-50: a line that matches the chapter heading closes
\* the chapter before it and opens a new one; any other line belongs to the
\* open chapter
SimpleScan(lines, chapters, current) ==
  IF lines = <<>>
  THEN IF current = NoValue THEN chapters ELSE Append(chapters, current)
  ELSE IF Head(lines).k = "chapter"
       THEN SimpleScan(Tail(lines),
                       IF current = NoValue THEN chapters ELSE Append(chapters, current),
                       [num |-> Head(lines).num, title |-> Head(lines).title,
                        lines |-> <<>>])
       ELSE SimpleScan(Tail(lines), chapters,
                       IF current = NoValue THEN current
                       ELSE [current EXCEPT !.lines = Append(@, Head(lines))])

\* the (chapter_num, title, content) tuples, in document order
SimpleChapters(file) == SimpleScan(LogLines(file.lines), <<>>, NoValue)

\* lines 69-96: the summary built from one tuple
SimpleSummary(chapter, time) ==
  LET t == JoinLines(chapter.lines)
      plot == FieldMatch(t, "plot label")
      clue == FieldMatch(t, "clue label")
  IN ChapterSummary(chapter.num, chapter.title, plot.text, SimpleCharacters(t),
                    IF clue.found THEN <<clue.text>> ELSE <<>>, 0, time)

\* a bug a maintainer could make: the imported record replaces the stored one
AddCharactersOverwriting(chars, names) ==
  IF names = <<>> THEN chars
  ELSE LET fresh == [i \in 1..Len(names) |->
                       CharacterInfo(names[i], Lit("imported from GEMINI", 9))]
       IN SelectSeq(chars, LAMBDA c : c.name \notin {names[i] : i \in 1..Len(names)})
            \o fresh

RECURSIVE AddCharactersIfAbsent(_, _)
\* if char_name not in agent.characters: agent.characters[char_name] =
\* CharacterInfo(name=char_name, description="从GEMINI导入")
AddCharactersIfAbsent(chars, names) ==
  IF names = <<>> THEN chars
  ELSE AddCharactersIfAbsent(
         IF \E i \in 1..Len(chars) : chars[i].name = Head(names) THEN chars
         ELSE Append(chars, CharacterInfo(Head(names), Lit("imported from GEMINI", 9))),
         Tail(names))

RECURSIVE ImportSummaries(_, _)
\* add_chapter_summary for every summary, in the order of the list
ImportSummaries(list, summaries) ==
  IF summaries = <<>> THEN list
  ELSE ImportSummaries(Upsert(list, Head(summaries)), Tail(summaries))

RECURSIVE NamesInvolved(_)
\* the names of characters_involved of every summary, in the order of the list
NamesInvolved(summaries) ==
  IF summaries = <<>> THEN <<>>
  ELSE Head(summaries).characters_involved \o NamesInvolved(Tail(summaries))

-----------------------------------------------------------------------------
(* gemini_adapter_fixed.py: parse_gemini_plot_log *)

\* re.findall(chapter_pattern, log_content) with the pattern of line 110.
\* The pattern is a raw string whose backslashes are doubled, so \\* is "any
\* number of backslashes" and (\\d+) is "a backslash and one or more d": it
\* matches the text "### 第\d章..." and no heading "### **第1章：...**".
FixedChapters(file) ==
  IF ~file.exists THEN <<>>
  ELSE SelectSeq(LogLines(file.lines), LAMBDA l : l.k = "escChapter")

\* lines 114-122: int(chapter_num) of line 117 is evaluated for the first
\* heading found, whose group 1 is never a numeral: ValueError, outside any
\* try.  Without a heading the loop body does not run.
FixedParse(file) ==
  [raised |-> FixedChapters(file) # <<>>, blocks |-> <<>>, summaries |-> <<>>]

RECURSIVE EventsOf(_)
\* (event, chapter_num) for every key event of every summary, in order
EventsOf(summaries) ==
  IF summaries = <<>> THEN <<>>
  ELSE [i \in 1..Len(Head(summaries).key_events) |->
          [event |-> Head(summaries).key_events[i], num |-> Head(summaries).chapter_num]]
        \o EventsOf(Tail(summaries))

\* a bug a maintainer could make: an event of exactly 10 characters counts
ExtractPlotThreadsFromTen(summaries) ==
  LET long == SelectSeq(EventsOf(summaries), LAMBDA e : TextLen(e.event) >= 10)
  IN [i \in 1..Len(long) |->
        PlotThread(i, long[i].event, "active", "medium", long[i].num, long[i].num)]

\* extract_plot_threads: one thread per key event longer than 10 characters,
\* with the ids thread_1, thread_2, ... counted from 1 in every call
ExtractPlotThreads(summaries) ==
  LET long == SelectSeq(EventsOf(summaries), LAMBDA e : TextLen(e.event) > 10)
  IN [i \in 1..Len(long) |->
        PlotThread(i, long[i].event, "active", "medium", long[i].num, long[i].num)]

RECURSIVE PutThreads(_, _)
\* agent.plot_threads[thread.id] = thread, for every thread
PutThreads(dict, threads) ==
  IF threads = <<>> THEN dict
  ELSE LET t == Head(threads)
           at == {i \in 1..Len(dict) : dict[i].id = t.id}
       IN PutThreads(IF at = {} THEN Append(dict, t)
                     ELSE [i \in 1..Len(dict) |-> IF i \in at THEN t ELSE dict[i]],
                     Tail(threads))

RECURSIVE UpdateCharacters(_, _)
\* agent.characters.update(all_characters): a name already present gets the
\* new record, a new name is added
UpdateCharacters(chars, names) ==
  IF names = <<>> THEN chars
  ELSE LET c == CharacterInfo(Head(names), Lit("imported from GEMINI", 9))
           at == {i \in 1..Len(chars) : chars[i].name = Head(names)}
       IN UpdateCharacters(IF at = {} THEN Append(chars, c)
                           ELSE [i \in 1..Len(chars) |-> IF i \in at THEN c ELSE chars[i]],
                           Tail(names))

-----------------------------------------------------------------------------
(* gemini_adapter.py: parse_gemini_plot_log *)

\* a line that begins with "##"
StartsWithHashes(line) ==
  line.k \in {"logBold", "logPlain", "chapter", "volume", "escChapter"}

\* group 1 of r'## \*\*剧情日志\*\*(.*?)(?=^##|\n---|\Z)' (else of the pattern
\* without asterisks) with MULTILINE and DOTALL: the lines after the heading
\* up to the next line that begins with "##", a chapter heading included
OrigSection(lines) ==
  LET start == LogStart(lines)
      stops == {i \in (start + 1)..Len(lines) : StartsWithHashes(lines[i])}
      stop == IF stops = {} THEN Len(lines) + 1
              ELSE CHOOSE i \in stops : \A j \in stops : i <= j
  IN IF start = 0 THEN <<>> ELSE SubSeq(lines, start + 1, stop - 1)

\* the first position from `from` on whose piece is not white space
SkipSpace(t, from) ==
  LET S == {i \in from..Len(t) : ~IsSpace(t[i])}
  IN IF S = {} THEN Len(t) + 1 ELSE CHOOSE i \in S : \A j \in S : i <= j

\* [^*\n]+ matches at position i
StatusAt(t, i) == i <= Len(t) /\ ~IsStar(t[i]) /\ t[i].id # "NL"

\* where \s*[：:]\*\*([^*\n]+) matches from position i on: the position of
\* the closing **, 0 when it does not match
ColonClose(t, i) ==
  LET c == SkipSpace(t, i)
  IN IF c + 1 <= Len(t) /\ t[c].id = ":" /\ t[c + 1].id = "**" /\ StatusAt(t, c + 2)
     THEN c + 1 ELSE 0

\* the end of the status text [^*\n]+ that begins at i
StatusEnd(t, i) == FirstAt(t, i, {"*", "**", "NL"})

RECURSIVE OrigCharMatches(_, _)
\* re.findall(r'\*\*([^(（]+)(?:\s*[（(]([^)）]*)[）)])?\s*[：:]\*\*([^*\n]+)', t),
\* group 1 of every match, stripped
OrigCharMatches(t, from) ==
  LET p == FirstAt(t, from, {"**"})
      lp == FirstAt(t, p + 1, {"("})
      rp == FirstAt(t, lp + 1, {")"})
      withParen == /\ lp <= Len(t) /\ rp <= Len(t)
                   /\ TextLen(SubSeq(t, p + 1, lp - 1)) >= 1
                   /\ ColonClose(t, rp + 1) # 0
      closers == {q \in (p + 3)..(lp - 1) : t[q].id = "**" /\ t[q - 1].id = ":"
                                              /\ StatusAt(t, q + 1)}
      last == CHOOSE q \in closers : \A r \in closers : r <= q
  IN IF p > Len(t) THEN <<>>
     ELSE IF withParen
          THEN <<Strip(SubSeq(t, p + 1, lp - 1))>>
                 \o OrigCharMatches(t, StatusEnd(t, ColonClose(t, rp + 1) + 1))
     ELSE IF closers # {}
          THEN <<Strip(SubSeq(t, p + 1, last - 2))>>
                 \o OrigCharMatches(t, StatusEnd(t, last + 1))
     ELSE OrigCharMatches(t, p + 1)

\* group 1 of r'\*\s*\*\*角色状态[：:]?\*\*\s*(.*?)(?=\*\s*\*\*|$)' with DOTALL:
\* what follows the label up to the next "* **", which is where the first
\* bulleted character entry begins
OrigCharSection(t) ==
  LET S == FieldStarts(t, "state label")
      i == CHOOSE k \in S : \A j \in S : k <= j
      from == SkipSpace(t, CaptureStart(t, i))
      ends == {e \in from..Len(t) :
                 /\ IsStar(t[e])
                 /\ SkipSpace(t, e + 1) <= Len(t)
                 /\ t[SkipSpace(t, e + 1)].id = "**"}
      end == IF ends = {} THEN Len(t) + 1 ELSE CHOOSE e \in ends : \A j \in ends : e <= j
  IN IF S = {} THEN [found |-> FALSE, text |-> Empty]
     ELSE [found |-> TRUE, text |-> SubSeq(t, from, end - 1)]

\* gemini_adapter.py, parse_single_chapter_summary, lines 129-141
OrigCharacters(t) ==
  IF OrigCharSection(t).found
  THEN SelectSeq(OrigCharMatches(OrigCharSection(t).text, 1), LAMBDA n : n # <<>>)
  ELSE <<>>

\* the content of the chapter whose heading is line i of the section: what
\* follows the empty line up to the next line that begins with "### ", stripped
OrigContent(section, i) ==
  LET stops == {j \in (i + 2)..Len(section) : section[j].k \in {"chapter", "escChapter"}}
      stop == IF stops = {} THEN Len(section) + 1
              ELSE CHOOSE j \in stops : \A k \in stops : j <= k
  IN Strip(JoinLines(SubSeq(section, i + 2, stop - 1)))

\* parse_gemini_plot_log, lines 104-120, and parse_single_chapter_summary.
\* The chapter pattern is not anchored to the line start, so it also matches
\* an indented heading; its content group runs up to the next line that
\* begins with "### " and swallows every heading before that line.
OrigParse(file, time) ==
  IF ~file.exists THEN <<>>
  ELSE LET section == OrigSection(file.lines)
           \* the section ends at a line beginning with "##", whose preceding
           \* line break still belongs to the section
           closed == \E i \in (LogStart(file.lines) + 1)..Len(file.lines) :
                       StartsWithHashes(file.lines[i])
           found == SelectSeq([i \in 1..Len(section) |-> i],
                              LAMBDA i : /\ section[i].k \in {"chapter", "indentChapter"}
                                         /\ i + 1 <= Len(section)
                                         /\ section[i + 1].k = "blank"
                                         /\ (i + 2 <= Len(section) \/ closed))
           swallowed(i) ==
             \E h \in 1..Len(found) :
               /\ found[h] < i
               /\ \A j \in (found[h] + 2)..(i - 1) :
                    section[j].k \notin {"chapter", "escChapter"}
           heads == SelectSeq(found, LAMBDA i : ~swallowed(i))
       IN [h \in 1..Len(heads) |->
             LET t == OrigContent(section, heads[h])
                 plot == FieldMatch(t, "plot label")
                 clue == FieldMatch(t, "clue label")
             IN ChapterSummary(section[heads[h]].num, section[heads[h]].title,
                               plot.text, OrigCharacters(t),
                               IF clue.found THEN <<clue.text>> ELSE <<>>, 0, time)]

-----------------------------------------------------------------------------
(* The importers as operations on the project *)

\* the chapter numbers the imports of the model's logs carry
LogChapters == {1, 2}

\* the lines a narrative log of the model is made of
LogAlphabet ==
  { Line("logBold", 0, Empty, Empty), Line("logPlain", 0, Empty, Empty),
    Line("volume", 2, Empty, Empty), Line("blank", 0, Empty, Empty),
    Line("escChapter", 0, Lit("title", 5), Empty),
    Line("plot", 0, Empty, Lit("progress", 8)),
    Line("clues", 0, Empty, Lit("clue", 12)),
    Line("charEntry", 0, Lit("Zhang", 2), Lit("status", 2)) }
  \cup {Line("chapter", n, Lit("title", n), Empty) : n \in LogChapters}

\* the narrative logs of the model: no file, or any document of up to
\* MaxLines lines
InputLogs ==
  {NoFile} \cup UNION {{File(l) : l \in [1..n -> LogAlphabet]} : n \in 0..MaxLines}

\* what an import leaves for the properties to read
ImportCall(by, a, chapters, summaries, raised) ==
  [op |-> "import", by |-> by, agent |-> a, log |-> agent_file,
   chapters |-> chapters, extracted |-> NumSeq(summaries),
   before |-> chapter_summaries[a], file_before |-> summaries_file,
   names |-> NamesInvolved(summaries), characters_before |-> characters[a],
   raised |-> raised]

ImportRecord(by, list, summaries, raised) ==
  [by |-> by, nums |-> NumSeq(list), extracted |-> NumSeq(summaries), raised |-> raised]

\* gemini_adapter_fixed.py, import_data_to_agent(agent), lines 51-85
ImportFixed(a) ==
  LET parsed == FixedParse(agent_file)
      list == ImportSummaries(chapter_summaries[a], parsed.summaries)
      chars == UpdateCharacters(characters[a], NamesInvolved(parsed.summaries))
      threads == PutThreads(plot_threads[a], ExtractPlotThreads(parsed.summaries))
  IN /\ pc[a] = "idle"
     /\ Len(imports) < MaxImports
     /\ ~parsed.raised
     /\ chapter_summaries' = [chapter_summaries EXCEPT ![a] = list]
     /\ characters' = [characters EXCEPT ![a] = chars]
     /\ plot_threads' = [plot_threads EXCEPT ![a] = threads]
     /\ characters_file' = chars
     /\ plot_threads_file' = threads
     /\ summaries_file' = SavedCollection(list, summaries_file)
     /\ last_call' = ImportCall("gemini_adapter_fixed", a, parsed.blocks,
                                parsed.summaries, FALSE)
     /\ imports' = Append(imports, ImportRecord("gemini_adapter_fixed", list,
                                                parsed.summaries, FALSE))
     /\ UNCHANGED <<chapter_files, agent_file, pc, context, steps_log, run_start>>

\* import_data_to_agent(agent) when parse_gemini_plot_log raises: line 55
\* is the first statement, nothing has been stored or saved
ImportFixedRaises(a) ==
  /\ pc[a] = "idle"
  /\ Len(imports) < MaxImports
  /\ FixedParse(agent_file).raised
  /\ last_call' = ImportCall("gemini_adapter_fixed", a, <<>>, <<>>, TRUE)
  /\ imports' = Append(imports, ImportRecord("gemini_adapter_fixed",
                                             chapter_summaries[a], <<>>, TRUE))
  /\ UNCHANGED <<chapter_summaries, summaries_file, characters, characters_file,
                 plot_threads, plot_threads_file, chapter_files, agent_file,
                 pc, context, steps_log, run_start>>

\* gemini_adapter.py, import_data_to_agent(agent), lines 51-80
ImportOrig(a, time) ==
  LET summaries == OrigParse(agent_file, time)
      list == ImportSummaries(chapter_summaries[a], summaries)
      chars == AddCharactersIfAbsent(characters[a], NamesInvolved(summaries))
      threads == PutThreads(plot_threads[a], ExtractPlotThreads(summaries))
  IN /\ pc[a] = "idle"
     /\ Len(imports) < MaxImports
     /\ chapter_summaries' = [chapter_summaries EXCEPT ![a] = list]
     /\ characters' = [characters EXCEPT ![a] = chars]
     /\ plot_threads' = [plot_threads EXCEPT ![a] = threads]
     /\ characters_file' = chars
     /\ plot_threads_file' = threads
     /\ summaries_file' = SavedCollection(list, summaries_file)
     /\ last_call' = ImportCall("gemini_adapter", a, <<>>, summaries, FALSE)
     /\ imports' = Append(imports, ImportRecord("gemini_adapter", list, summaries, FALSE))
     /\ UNCHANGED <<chapter_files, agent_file, pc, context, steps_log, run_start>>

\* simple_migrate.py, test_and_migrate: every run of the script is a new
\* process that segments the log, constructs its agent from the files, adds
\* every chapter in document order and saves the characters
MigrateSimple(a, time) ==
  LET chapters == SimpleChapters(agent_file)
      summaries == [i \in 1..Len(chapters) |-> SimpleSummary(chapters[i], time)]
      list == ImportSummaries(summaries_file, summaries)
      chars == AddCharactersIfAbsent(characters_file, NamesInvolved(summaries))
  IN /\ pc[a] \in {"none", "idle"}
     /\ Len(imports) < MaxImports
     /\ agent_file.exists
     /\ chapter_summaries' = [chapter_summaries EXCEPT ![a] = list]
     /\ characters' = [characters EXCEPT ![a] = chars]
     /\ plot_threads' = [plot_threads EXCEPT ![a] = plot_threads_file]
     /\ characters_file' = chars
     /\ summaries_file' = IF summaries = <<>> THEN summaries_file
                          ELSE SavedCollection(list, summaries_file)
     /\ pc' = [pc EXCEPT ![a] = "idle"]
     /\ last_call' = [ImportCall("simple_migrate", a, chapters, summaries, FALSE)
                        EXCEPT !.before = summaries_file,
                               !.characters_before = characters_file]
     /\ imports' = Append(imports, ImportRecord("simple_migrate", list, summaries, FALSE))
     /\ UNCHANGED <<plot_threads_file, chapter_files, agent_file, context,
                    steps_log, run_start>>

\* test_and_migrate when the log file is missing: open() of line 16 raises
\* before the agent is constructed
MigrateSimpleRaises(a) ==
  /\ pc[a] \in {"none", "idle"}
  /\ Len(imports) < MaxImports
  /\ ~agent_file.exists
  /\ last_call' = ImportCall("simple_migrate", a, <<>>, <<>>, TRUE)
  /\ imports' = Append(imports, ImportRecord("simple_migrate", chapter_summaries[a],
                                             <<>>, TRUE))
  /\ UNCHANGED <<chapter_summaries, summaries_file, characters, characters_file,
                 plot_threads, plot_threads_file, chapter_files, agent_file,
                 pc, context, steps_log, run_start>>

\* characters.json before the first import: missing, or written earlier with
\* a character that has a description and a state of its own
InitialCasts ==
  { <<>>,
    <<[CharacterInfo(Lit("Zhang", 2), Lit("hand-written", 12))
         EXCEPT !.current_state = "{realm}"]>> }

InitImport == InitWith(InputLogs, {<<>>}, InitialCasts, {<<>>})

NextImport ==
  \/ Construct(Owner)
  \/ ImportFixed(Owner)
  \/ ImportFixedRaises(Owner)
  \/ \E time \in Times : ImportOrig(Owner, time)
  \/ \E time \in Times : MigrateSimple(Owner, time)
  \/ MigrateSimpleRaises(Owner)

\* one project whose narrative log is imported, up to MaxImports times
SpecImport == InitImport /\ [][NextImport]_vars

-----------------------------------------------------------------------------
(* Properties of the importers *)

\* the positions of the chapter headings in the log part of a document
HeadingPositions(lines) ==
  SelectSeq([i \in 1..Len(LogLines(lines)) |-> i],
            LAMBDA i : LogLines(lines)[i].k = "chapter")

\* the chapter numbers of the headings, in document order
HeadingNums(lines) ==
  [j \in 1..Len(HeadingPositions(lines)) |->
     LogLines(lines)[HeadingPositions(lines)[j]].num]

\* the blocks of a log: block j runs from the j-th chapter heading to just
\* before the next chapter heading; the last one to just before the next
\* volume heading, or else to the end of the document
BlocksOf(lines) ==
  LET log == LogLines(lines)
      heads == HeadingPositions(lines)
      volumes(from) == {i \in from..Len(log) : log[i].k = "volume"}
      end(j) == IF j < Len(heads) THEN heads[j + 1] - 1
                ELSE IF volumes(heads[j]) = {} THEN Len(log)
                ELSE (CHOOSE i \in volumes(heads[j]) :
                        \A k \in volumes(heads[j]) : i <= k) - 1
  IN [j \in 1..Len(heads) |-> SubSeq(log, heads[j], end(j))]

\* a document that exists, has a log heading, and whose only lines that
\* begin with "### " are well-formed chapter headings
WellFormedLog(file) ==
  /\ file.exists
  /\ LogStart(file.lines) # 0
  /\ \A i \in 1..Len(file.lines) : file.lines[i].k # "escChapter"

\* C8: for every log with K well-formed chapter headings the Segmenter of
\* gemini_adapter_fixed.py returns exactly K blocks in document order, block
\* j running from the j-th heading to just before the next chapter heading
\* (the last one to the next volume heading, or else to the end of the
\* document).
C8_SegmenterReturnsBlocks ==
  (/\ last_call.op = "import"
   /\ last_call.by = "gemini_adapter_fixed"
   /\ WellFormedLog(last_call.log))
    => /\ ~last_call.raised
       /\ last_call.chapters = BlocksOf(last_call.log.lines)

Range(seq) == {seq[i] : i \in 1..Len(seq)}

\* C9: an import extracts the chapter blocks of a log in document order, out
\* of numeric order if the log has them so, and once every block is inserted
\* the persisted collection is in ascending order of chapter number with one
\* summary per heading number.
C9_ImportSortsByNumber ==
  (/\ last_call.op = "import"
   /\ last_call.by \in {"gemini_adapter_fixed", "simple_migrate"}
   /\ WellFormedLog(last_call.log))
    => /\ ~last_call.raised
       /\ last_call.extracted = HeadingNums(last_call.log.lines)
       /\ StrictlyAscending(summaries_file)
       /\ Nums(summaries_file) = Range(HeadingNums(last_call.log.lines))
                                   \cup Nums(last_call.file_before)

NoNumberTwice(nums) == \A i, j \in 1..Len(nums) : nums[i] = nums[j] => i = j

\* C10: importing the same log twice in a row leaves the store with the set
\* of chapter numbers the first import left, and after any import no chapter
\* number is stored twice.
C10_ReimportSameNumbers ==
  /\ \A i \in 1..Len(imports) : NoNumberTwice(imports[i].nums)
  /\ \A i \in 2..Len(imports) :
       imports[i].by = imports[i - 1].by =>
         Range(imports[i].nums) = Range(imports[i - 1].nums)

\* the same importer ran twice in a row on a log whose chapters it extracts
\* out of numeric order, and the second run found them all stored already
C10_Witness ==
  /\ Len(imports) >= 2
  /\ imports[2].by = imports[1].by
  /\ ~imports[2].raised
  /\ Len(imports[2].extracted) >= 2
  /\ imports[2].extracted[1] > imports[2].extracted[2]
  /\ Range(imports[2].extracted) \subseteq Range(imports[1].nums)

Names(chars) == {chars[i].name : i \in 1..Len(chars)}

\* C11: the character merge of an import is insert-if-absent: every
\* character stored before the import is stored afterwards with the same
\* description and current_state (and in the same place), every character
\* added has a name that was not stored and that the import extracted, none
\* is removed, and characters.json holds the merged collection; an import
\* that raises leaves the characters alone.
C11_InsertIfAbsent ==
  [][ imports' # imports =>
        LET call == last_call'
            before == call.characters_before
            after == characters'[call.agent]
        IN IF call.raised
           THEN characters' = characters /\ characters_file' = characters_file
           ELSE /\ Len(before) <= Len(after)
                /\ \A i \in 1..Len(before) : after[i] = before[i]
                /\ \A j \in (Len(before) + 1)..Len(after) :
                     /\ after[j].name \notin Names(before)
                     /\ after[j].name \in Range(call.names)
                /\ Range(call.names) \subseteq Names(after)
                /\ NoNumberTwice([j \in 1..Len(after) |-> after[j].name])
                /\ characters_file' = after
    ]_vars

\* an import extracted the name of a character that was stored with a
\* description and a state of its own, and the character is stored as it was
C11_Witness ==
  /\ last_call.op = "import"
  /\ ~last_call.raised
  /\ last_call.characters_before # <<>>
  /\ last_call.characters_before[1].name \in Range(last_call.names)
  /\ last_call.characters_before[1].description = Lit("hand-written", 12)
  /\ characters_file = last_call.characters_before

-----------------------------------------------------------------------------
(* extract_plot_threads as a function of the list of summaries *)

\* the longest list of summaries and of key events given to the function
MaxSummaries == 2
MaxEvents == 2

\* key events of 10 and of 11 characters
InputEvents == {Lit("ten", 10), Lit("eleven", 11)}

InputEventLists == UNION {[1..n -> InputEvents] : n \in 0..MaxEvents}

\* lists of summaries as the parsers build them; a log may hold a chapter
\* number twice
InputSummaryLists ==
  UNION {[1..n -> {ChapterSummary(num, Lit("title", num), Empty, <<>>, events, 0, 1) :
                     num \in LogChapters, events \in InputEventLists}] :
         n \in 0..MaxSummaries}

\* adapter.extract_plot_threads(summaries), called once on a list
CallExtractPlotThreads ==
  /\ last_call = NoCall
  /\ \E summaries \in InputSummaryLists :
       last_call' = [op |-> "extract_plot_threads", summaries |-> summaries,
                     result |-> ExtractPlotThreads(summaries)]
  /\ UNCHANGED <<chapter_summaries, summaries_file, characters, characters_file,
                 plot_threads, plot_threads_file, chapter_files, agent_file,
                 pc, context, steps_log, run_start, imports>>

InitThreads == InitProject({NoFile})

NextThreads == CallExtractPlotThreads

SpecThreads == InitThreads /\ [][NextThreads]_vars

\* the places (summary, event) of the key events longer than 10 characters
LongEvents(summaries) ==
  {p \in (1..Len(summaries)) \X (1..MaxEvents + 1) :
     /\ p[2] <= Len(summaries[p[1]].key_events)
     /\ TextLen(summaries[p[1]].key_events[p[2]]) > 10}

\* the number of long events up to and including the place p
RankOf(p, places) ==
  Cardinality({q \in places : q[1] < p[1] \/ (q[1] = p[1] /\ q[2] <= p[2])})

\* C12: extract_plot_threads emits exactly one thread per key event longer
\* than 10 characters, in the order of the events, and none for an event of
\* 10 characters or fewer; the thread is active, of medium priority, its
\* description is the event and its first and last chapter are the chapter
\* of the summary; no two threads share an id, so equal events of different
\* chapters give different threads.
C12_OneThreadPerLongEvent ==
  last_call.op = "extract_plot_threads" =>
    LET summaries == last_call.summaries
        result == last_call.result
        places == LongEvents(summaries)
    IN /\ Len(result) = Cardinality(places)
       /\ \A p \in places :
            LET t == result[RankOf(p, places)]
            IN /\ t.description = summaries[p[1]].key_events[p[2]]
               /\ t.status = "active"
               /\ t.priority = "medium"
               /\ t.first_chapter = summaries[p[1]].chapter_num
               /\ t.last_chapter = summaries[p[1]].chapter_num
       /\ \A i, j \in 1..Len(result) : i # j => result[i].id # result[j].id

\* a call with an event of exactly 10 characters, an event of 11 characters
\* and the same long event in two chapters
C12_Witness ==
  /\ last_call.op = "extract_plot_threads"
  /\ Len(last_call.summaries) = 2
  /\ last_call.summaries[1].chapter_num # last_call.summaries[2].chapter_num
  /\ last_call.summaries[1].key_events = <<Lit("ten", 10), Lit("eleven", 11)>>
  /\ last_call.summaries[2].key_events = <<Lit("eleven", 11)>>
  /\ Len(last_call.result) = 2
  /\ last_call.result[1].description = last_call.result[2].description
  /\ last_call.result[1] # last_call.result[2]

-----------------------------------------------------------------------------
(* find_unresolved_threads on a project with stored threads *)

\* the most threads in plot_threads.json
MaxThreads == 3

\* the highest stored chapter of the project
QueryLatest == {10, 11}

\* chapter_summaries.json of a project whose latest chapter is 10 or 11
QueryStores ==
  {<<ChapterSummary(n, Lit("title", n), Empty, <<>>, <<>>, 0, 1)>> : n \in QueryLatest}

\* what a stored thread can look like: active threads last advanced in
\* chapter 5, 7 or 8, and threads that are resolved or pending
ThreadShapes ==
  {PlotThread(0, Lit("thread", 12), "active", priority, 1, last) :
     priority \in {"high", "medium"}, last \in {5, 7, 8}}
  \cup {PlotThread(0, Lit("thread", 12), "resolved", "high", 1, 5),
        PlotThread(0, Lit("thread", 12), "pending", "low", 1, 5)}

\* plot_threads.json: a dict keyed by id, in insertion order
QueryThreads ==
  UNION {{[i \in 1..n |-> [shapes[i] EXCEPT !.id = i]] : shapes \in [1..n -> ThreadShapes]} :
         n \in 0..MaxThreads}

\* agent.find_unresolved_threads()
FindUnresolvedThreads(a) ==
  /\ pc[a] = "idle"
  /\ last_call' = [op |-> "find_unresolved_threads", agent |-> a,
                   result |-> UnresolvedThreads(plot_threads[a], chapter_summaries[a])]
  /\ UNCHANGED <<chapter_summaries, summaries_file, characters, characters_file,
                 plot_threads, plot_threads_file, chapter_files, agent_file,
                 pc, context, steps_log, run_start, imports>>

InitQuery == InitWith({NoFile}, QueryStores, {<<>>}, QueryThreads)

NextQuery ==
  \/ Construct(Owner)
  \/ FindUnresolvedThreads(Owner)

SpecQuery == InitQuery /\ [][NextQuery]_vars

\* the highest chapter number among the summaries, 0 when there is none
HighestStored(list) ==
  IF list = <<>> THEN 0
  ELSE CHOOSE m \in Range(NumSeq(list)) : \A k \in Range(NumSeq(list)) : k <= m

\* C13: find_unresolved_threads returns exactly the active threads whose
\* last_chapter trails the latest stored chapter by more than 3, each once:
\* a difference of exactly 3 is not stale, a resolved or pending thread is
\* never returned; with latest chapter 10 an active thread of last_chapter 5
\* is returned and one of last_chapter 8 is not.
C13_StaleThreads ==
  last_call.op = "find_unresolved_threads" =>
    LET threads == plot_threads[last_call.agent]
        latest == HighestStored(chapter_summaries[last_call.agent])
        result == last_call.result
        stale == {t \in Range(threads) :
                    t.status = "active" /\ latest - t.last_chapter > 3}
    IN /\ Range(result) = stale
       /\ Len(result) = Cardinality(stale)
       /\ \A t \in Range(threads) :
            /\ t.status # "active" => t \notin Range(result)
            /\ latest - t.last_chapter = 3 => t \notin Range(result)
            /\ latest = 10 /\ t.last_chapter = 8 => t \notin Range(result)
            /\ latest = 10 /\ t.last_chapter = 5 /\ t.status = "active"
                 => t \in Range(result)

\* latest chapter 10; an active thread of last_chapter 5, one of 7 (exactly
\* 3 behind) and a resolved one of last_chapter 5: only the first is returned
C13_Witness ==
  /\ last_call.op = "find_unresolved_threads"
  /\ HighestStored(chapter_summaries[Owner]) = 10
  /\ Len(plot_threads[Owner]) = 3
  /\ plot_threads[Owner][1].status = "resolved"
  /\ plot_threads[Owner][2].status = "active" /\ plot_threads[Owner][2].last_chapter = 7
  /\ plot_threads[Owner][3].status = "active" /\ plot_threads[Owner][3].last_chapter = 5
  /\ last_call.result = <<plot_threads[Owner][3]>>

\* the place of a thread in the store
PlaceOf(t, threads) == CHOOSE i \in 1..Len(threads) : threads[i] = t

-----------------------------------------------------------------------------
(* Runs on a project that already has chapters and plot threads *)

\* the last chapter a run of this part writes
MaxReviewChapter == 6

\* the most chapters stored before the first run
MaxStored == 4

\* chapter_summaries.json before the first run: the chapters 1..n
ReviewStores ==
  {[i \in 1..n |-> ChapterSummary(i, Lit("title", i), Lit("summary", 40), <<>>, <<>>, 40, 1)] :
     n \in 0..MaxStored}

\* plot_threads.json before the first run
ReviewThreads ==
  { <<>>,
    <<PlotThread(1, Lit("thread", 12), "active", "medium", 1, 1)>>,
    <<PlotThread(1, Lit("thread", 12), "active", "medium", 1, 1),
      PlotThread(2, Lit("thread", 12), "active", "high", 1, 2)>>,
    <<PlotThread(1, Lit("thread", 12), "resolved", "high", 1, 1),
      PlotThread(2, Lit("thread", 12), "active", "high", 1, 2)>> }

InitReview ==
  InitWith({File(<<Line("logPlain", 0, Empty, Empty)>>)}, ReviewStores, {<<>>},
           ReviewThreads)

NextReview ==
  \/ Construct(Owner)
  \/ StartRunWith(Owner, MaxReviewChapter, DefaultWorkflow)
  \/ StepReview(Owner)
  \/ StepPreCheck(Owner)
  \/ StepWriting(Owner)
  \/ FinalizeSaveChapter(Owner)
  \/ \E time \in RunTimes : FinalizeAddSummary(Owner, time)
  \/ FinalizeUpdateLog(Owner)

SpecReview == InitReview /\ [][NextReview]_vars

\* the active threads whose last_chapter trails the chapter `num` by more than 3
TrailingBy3(threads, num) ==
  {t \in Range(threads) : t.status = "active" /\ num - t.last_chapter > 3}

ReviewRan(a) == "review_result" \in context[a].keys

\* C15, as the code has it: the stale-thread list that Review puts in the
\* context is the staleness query evaluated against the latest stored
\* chapter, which in a run of create_next_chapter is the chapter before the
\* target: it holds exactly the active threads with
\* (next_chapter_num - 1 - last_chapter) > 3.
C15_StaleAgainstLatestStored ==
  \A a \in Agents :
    ReviewRan(a) =>
      LET review == context[a].review_result
      IN /\ review.next_chapter_num = context[a].next_chapter_num
         /\ Range(review.unresolved_threads)
              = TrailingBy3(plot_threads[a], context[a].next_chapter_num - 1)
         /\ Len(review.unresolved_threads)
              = Cardinality(Range(review.unresolved_threads))

\* C15, as stated: Review's stale list holds exactly the active threads with
\* (target chapter number - last_chapter) > 3, the target being the
\* next_chapter_num of the run.
C15_StaleAgainstTarget ==
  \A a \in Agents :
    ReviewRan(a) =>
      Range(context[a].review_result.unresolved_threads)
        = TrailingBy3(plot_threads[a], context[a].next_chapter_num)

\* Review ran for target chapter 6 with two active threads, last advanced in
\* chapter 1 and in chapter 2: it listed the first (4 behind the latest stored
\* chapter 5) and not the second (3 behind it, 4 behind the target)
C15_Witness ==
  /\ ReviewRan(Owner)
  /\ context[Owner].next_chapter_num = 6
  /\ Len(plot_threads[Owner]) = 2
  /\ plot_threads[Owner][1].status = "active"
  /\ plot_threads[Owner][1].last_chapter = 1
  /\ plot_threads[Owner][2].last_chapter = 2
  /\ context[Owner].review_result.unresolved_threads = <<plot_threads[Owner][1]>>

\* the summaries of the two highest chapter numbers of a store (all of them
\* when it holds fewer than two)
TwoLatest(list) ==
  {s \in Range(list) :
     Cardinality({r \in Range(list) : r.chapter_num > s.chapter_num}) < 2}

\* the ways of listing the summaries of a set, each once
ListingsOf(set) ==
  {l \in [1..Cardinality(set) -> set] : Range(l) = set}

\* C16: when no content generator is injected, the prompt produced by Write
\* lists the summaries of the two most recent chapters, the two highest
\* chapter numbers of the store (all stored chapters when there are fewer
\* than two), so the chapter immediately before the target chapter is among
\* them.
C16_PromptListsTwoLatest ==
  \A a \in Agents :
    ("chapter_content" \in context[a].keys /\ context[a].workflow = DefaultWorkflow) =>
      LET latest == TwoLatest(run_start[a].summaries)
      IN /\ \E listed \in ListingsOf(latest) :
              context[a].chapter_content
                = PromptListing(context[a].review_result, listed)
         /\ run_start[a].summaries # <<>> =>
              \E s \in latest : s.chapter_num = context[a].next_chapter_num - 1

-----------------------------------------------------------------------------
(* Runs whose Write stage has an injected content generator *)

\* custom_workflow = [ReviewStep(), PreWritingCheckStep(),
\* WritingStep(content_generator), FinalizeStep()]
GeneratorWorkflow == <<"review", "pre_check", "writing with generator", "finalize">>

\* what the injected generator returns: nothing, 200, 201 and 250 characters
GeneratedContents ==
  { Empty, Lit("content", 200), Lit("content", 201),
    Lit("opening", 150) \o Lit("ending", 100) }

\* WritingStep.execute, lines 165-167: content = self.content_generator(context)
StepGenerate(a) ==
  /\ pc[a] = "step"
  /\ CurrentStep(context[a]) = "writing with generator"
  /\ \E content \in GeneratedContents :
       context' = [context EXCEPT ![a] =
                     Advance([@ EXCEPT !.chapter_content = content,
                                       !.keys = @ \cup {"chapter_content"}])]
  /\ steps_log' = [steps_log EXCEPT ![a] = Append(@, "writing")]
  /\ pc' = [pc EXCEPT ![a] = AfterStep(context[a])]
  /\ UNCHANGED <<chapter_summaries, summaries_file, characters, characters_file,
                 plot_threads, plot_threads_file, chapter_files, agent_file,
                 run_start, last_call, imports>>

InitWrite == InitProject({File(<<Line("logPlain", 0, Empty, Empty)>>)})

NextWrite ==
  \/ Construct(Owner)
  \/ StartRunWith(Owner, MaxRunChapter, GeneratorWorkflow)
  \/ StepReview(Owner)
  \/ StepPreCheck(Owner)
  \/ StepGenerate(Owner)
  \/ FinalizeSaveChapter(Owner)
  \/ \E time \in Times : FinalizeAddSummary(Owner, time)
  \/ FinalizeUpdateLog(Owner)

SpecWrite == InitWrite /\ [][NextWrite]_vars

\* C17: the summary built by Finalize has content_summary equal to the whole
\* content when the content has at most 200 characters, and equal to its
\* first 200 characters followed by '...' when it is longer (250 characters
\* give 203); word_count is the length of the content; characters_involved,
\* plot_threads and key_events are empty.
C17_SummaryOfContent ==
  \A a \in Agents :
    context[a].chapter_summary # NoValue =>
      LET content == context[a].chapter_content
          summary == context[a].chapter_summary
      IN /\ TextLen(content) <= 200 => summary.content_summary = content
         /\ TextLen(content) > 200 =>
              /\ summary.content_summary = TextTake(content, 200) \o Lit("...", 3)
              /\ TextLen(summary.content_summary) = 203
         /\ summary.word_count = TextLen(content)
         /\ summary.characters_involved = <<>>
         /\ summary.plot_threads = <<>>
         /\ summary.key_events = <<>>
         /\ summary \in Range(chapter_summaries[a])

\* Finalize has built the summary of a content of 250 characters
C17_Witness ==
  /\ pc[Owner] = "added"
  /\ TextLen(context[Owner].chapter_content) = 250
  /\ context[Owner].chapter_summary.word_count = 250
  /\ context[Owner].chapter_summary.content_summary
       = Lit("opening", 150) \o Lit("ending", 50) \o Lit("...", 3)

-----------------------------------------------------------------------------
(* Properties of the log entry written by Finalize *)

\* Finalize's last call, update_plot_log, returned and ended the run of a
EntryLogged(a) ==
  /\ pc[a] = "added"
  /\ context'[a].outcome = "returned"
  /\ agent_file.exists

\* (chapter number, title) of the chapters a segmenter returned
HeadingsOf(chapters) ==
  [i \in 1..Len(chapters) |-> <<chapters[i].chapter_num, chapters[i].title>>]

\* what parse_gemini_plot_log of gemini_adapter_fixed.py returns for a document
FixedSegments(file) == HeadingsOf(FixedParse(file).summaries)

\* what the segmenter of simple_migrate.py returns for a document
SimpleSegments(file) ==
  HeadingsOf([i \in 1..Len(SimpleChapters(file)) |->
                [chapter_num |-> SimpleChapters(file)[i].num,
                 title |-> SimpleChapters(file)[i].title]])

\* the chapters `after` are the chapters `before` and one more, `new`
OneMore(before, after, new) ==
  /\ Len(after) = Len(before) + 1
  /\ Range(after) = Range(before) \cup {new}
  /\ new \notin Range(before)

\* C18: the log entry written by Finalize round-trips through the Segmenter:
\* whenever a run's Finalize has written its entry into an existing narrative
\* log, segmenting the document returns the blocks it returned before and
\* one more, with the chapter number and the title Finalize wrote; so after
\* any sequence of successful runs there is one block per finalized chapter.
C18_LogEntryRoundTrips ==
  [][ \A a \in Agents :
        EntryLogged(a) =>
          LET new == <<context[a].chapter_summary.chapter_num,
                       context[a].chapter_summary.title>>
          IN /\ OneMore(FixedSegments(agent_file), FixedSegments(agent_file'), new)
             /\ OneMore(SimpleSegments(agent_file), SimpleSegments(agent_file'), new)
    ]_vars

\* the line of the first log section heading of either variant, 0 if none
FirstHeading(lines) ==
  LET at == {i \in 1..Len(lines) : lines[i].k \in {"logBold", "logPlain"}}
  IN IF at = {} THEN 0 ELSE CHOOSE i \in at : \A j \in at : i <= j

ChapterLines(lines) == {i \in 1..Len(lines) : lines[i].k = "chapter"}

\* C19: every Finalize adds exactly one entry for its chapter to the
\* narrative-log document: immediately after the log section heading when
\* the document has one, of either heading variant, so that later chapters
\* come before earlier ones, and at the end of the file when the document
\* has no log heading yet.
C19_EntryAfterHeading ==
  [][ \A a \in Agents :
        EntryLogged(a) =>
          LET lines == agent_file.lines
              after == agent_file'.lines
              entry == LogEntry(context[a].chapter_summary)
              h == FirstHeading(lines)
          IN /\ Cardinality(ChapterLines(after)) = Cardinality(ChapterLines(lines)) + 1
             /\ IF h # 0
                THEN after = SubSeq(lines, 1, h) \o entry \o SubSeq(lines, h + 1, Len(lines))
                ELSE /\ Len(after) >= Len(lines) + Len(entry)
                     /\ SubSeq(after, 1, Len(lines)) = lines
                     /\ LastN(after, Len(entry)) = entry
    ]_vars

-----------------------------------------------------------------------------
(* parse_single_chapter_summary as a function of one chapter block *)

\* gemini_adapter_fixed.py, parse_single_chapter_summary, lines 148-187.  The
\* three patterns are raw strings with doubled backslashes: each asks for a
\* backslash next to its label ("\\s*" is a backslash and any number of s).
\* No line of a block holds a backslash, so no pattern matches: the plot
\* progress is "", the character section is not found, there is no key event.
FixedSummary(chapter, time) ==
  ChapterSummary(chapter.num, chapter.title, Empty, <<>>, <<>>, 0, time)

\* gemini_adapter.py, parse_single_chapter_summary, lines 122-162
OrigSummary(chapter, time) ==
  LET t == JoinLines(chapter.lines)
      plot == FieldMatch(t, "plot label")
      clue == FieldMatch(t, "clue label")
  IN ChapterSummary(chapter.num, chapter.title, plot.text, OrigCharacters(t),
                    IF clue.found THEN <<clue.text>> ELSE <<>>, 0, time)

\* the lines a chapter block is made of
BlockAlphabet ==
  { Line("plot", 0, Empty, Lit("progress", 8)),
    Line("charHead", 0, Empty, Empty),
    Line("clues", 0, Empty, Lit("clue", 12)),
    Line("charEntry", 0, Lit("Zhang", 2), Lit("status", 2)),
    Line("blank", 0, Empty, Empty) }

\* the content of a chapter block: up to MaxLines lines after the heading
InputBlocks ==
  UNION {{[num |-> 1, title |-> Lit("title", 1), lines |-> l] : l \in [1..n -> BlockAlphabet]} :
         n \in 0..MaxLines}

\* what an extraction leaves for the properties to read
ParseCall(by, block, result) ==
  [op |-> "parse_single_chapter_summary", by |-> by, block |-> block,
   result |-> result]

ParseSingleFixed ==
  /\ last_call = NoCall
  /\ \E block \in InputBlocks :
       last_call' = ParseCall("gemini_adapter_fixed", block, FixedSummary(block, 1))
  /\ UNCHANGED <<chapter_summaries, summaries_file, characters, characters_file,
                 plot_threads, plot_threads_file, chapter_files, agent_file,
                 pc, context, steps_log, run_start, imports>>

ParseSingleOrig ==
  /\ last_call = NoCall
  /\ \E block \in InputBlocks :
       last_call' = ParseCall("gemini_adapter", block, OrigSummary(block, 1))
  /\ UNCHANGED <<chapter_summaries, summaries_file, characters, characters_file,
                 plot_threads, plot_threads_file, chapter_files, agent_file,
                 pc, context, steps_log, run_start, imports>>

ParseSingleSimple ==
  /\ last_call = NoCall
  /\ \E block \in InputBlocks :
       last_call' = ParseCall("simple_migrate", block, SimpleSummary(block, 1))
  /\ UNCHANGED <<chapter_summaries, summaries_file, characters, characters_file,
                 plot_threads, plot_threads_file, chapter_files, agent_file,
                 pc, context, steps_log, run_start, imports>>

InitExtract == InitProject({NoFile})

NextExtract ==
  \/ ParseSingleFixed
  \/ ParseSingleOrig
  \/ ParseSingleSimple

SpecExtract == InitExtract /\ [][NextExtract]_vars

HasLine(block, kind) == \E i \in 1..Len(block.lines) : block.lines[i].k = kind

\* C20: a chapter block that has a plot-progress field but no
\* character-status field yields a summary whose content_summary is not
\* empty and whose characters_involved is empty.
C20_PlotWithoutCharacters ==
  (/\ last_call.op = "parse_single_chapter_summary"
   /\ HasLine(last_call.block, "plot")
   /\ ~HasLine(last_call.block, "charHead"))
    => /\ last_call.result.content_summary # Empty
       /\ last_call.result.characters_involved = <<>>

-----------------------------------------------------------------------------
(* Further properties of the importers *)

\* the log file is absent or holds neither variant of the log heading
NoLogSection(file) == ~file.exists \/ LogStart(file.lines) = 0

\* C21: when the document contains neither variant of the plot-log heading,
\* or the log file is absent, the import is a recoverable no-op: it returns
\* an empty chapter sequence, raises nothing, and adds no chapter summary,
\* character or thread to the store.
C21_MissingLogIsNoOp ==
  [][ (/\ imports' # imports
       /\ last_call'.by \in {"gemini_adapter_fixed", "simple_migrate"}
       /\ NoLogSection(last_call'.log))
        => /\ ~last_call'.raised
           /\ last_call'.chapters = <<>>
           /\ last_call'.extracted = <<>>
           /\ summaries_file' = summaries_file
           /\ characters_file' = characters_file
           /\ plot_threads_file' = plot_threads_file
           /\ chapter_summaries'[last_call'.agent] = summaries_file
           /\ characters'[last_call'.agent] = characters_file
           /\ plot_threads'[last_call'.agent] = plot_threads_file
    ]_vars

-----------------------------------------------------------------------------
(* Further properties of the workflow *)

\* C22: PreCheck is advisory and never blocks: for every Review output its
\* report has the character and the consistency check 'passed' with empty
\* notes and issues, empty lists of planned threads and of threads to
\* resolve, and empty warnings and suggestions; PreCheck runs right after
\* Review, and once it has run the run goes on with Write.
C22_PreCheckNeverBlocks ==
  \A a \in Agents :
    "check_result" \in context[a].keys =>
      LET report == context[a].check_result
      IN /\ report.character_check = [status |-> "passed", notes |-> <<>>]
         /\ report.consistency_check = [status |-> "passed", issues |-> <<>>]
         /\ report.plot_planning = [planned_threads |-> <<>>, threads_to_resolve |-> <<>>]
         /\ report.warnings = <<>>
         /\ report.suggestions = <<>>
         /\ "review_result" \in context[a].keys
         /\ IsPrefix(<<"review", "pre_check">>, steps_log[a])
         /\ IF Len(steps_log[a]) = 2
            THEN /\ pc[a] = "step"
                 /\ context[a].outcome = "running"
                 /\ CurrentStep(context[a]) = "writing"
            ELSE /\ steps_log[a][3] = "writing"
                 /\ "chapter_content" \in context[a].keys

\* Write has run after PreCheck in a run whose Review found a stale thread
C22_Witness ==
  /\ steps_log[Owner] = <<"review", "pre_check", "writing">>
  /\ "check_result" \in context[Owner].keys
  /\ context[Owner].review_result.unresolved_threads # <<>>
  /\ context[Owner].review_result.recent_chapters # <<>>

\* the names of the character entries of a block, in the order of the lines
EntryNames(block) ==
  LET entries == SelectSeq(block.lines, LAMBDA l : l.k = "charEntry")
  IN [i \in 1..Len(entries) |-> entries[i].title]

\* the first place of a name in a sequence of names, 0 when it is not there
FirstPlace(name, names) ==
  LET at == {i \in 1..Len(names) : names[i] = name}
  IN IF at = {} THEN 0 ELSE CHOOSE i \in at : \A j \in at : i <= j

\* C23: the characters_involved sequence of every extracted chapter summary
\* contains no name twice and lists the names in the order of their first
\* occurrence in the block.
C23_NamesOnceInFirstSeenOrder ==
  last_call.op = "parse_single_chapter_summary" =>
    LET names == last_call.result.characters_involved
        seen == EntryNames(last_call.block)
    IN /\ \A i, j \in 1..Len(names) : names[i] = names[j] => i = j
       /\ \A i, j \in 1..Len(names) :
            (i < j /\ FirstPlace(names[i], seen) # 0 /\ FirstPlace(names[j], seen) # 0)
              => FirstPlace(names[i], seen) <= FirstPlace(names[j], seen)

MaxBody == 2

\* the lines under a chapter heading
BodyAlphabet ==
  { Line("plot", 0, Empty, Lit("progress", 8)),
    Line("clues", 0, Empty, Lit("clue", 12)),
    Line("charEntry", 0, Lit("Zhang", 2), Lit("status", 2)) }

\* Narrative logs with one chapter heading, at the line start or after one
\* space, a blank line and up to MaxBody lines of content.
ReimportLogs ==
  { File(<<Line(log, 0, Empty, Empty), Line(head, n, Lit("title", n), Empty),
           Line("blank", 0, Empty, Empty)>> \o body) :
      log \in {"logBold", "logPlain"}, head \in {"chapter", "indentChapter"},
      n \in {1, 2},
      body \in UNION {[1..len -> BodyAlphabet] : len \in 0..MaxBody} }

\* plot_threads.json as the project's other tooling may have left it: empty,
\* or with the thread of an earlier import, untouched or since set to
\* resolved with a high priority and a description of its own.
ExternalThreads ==
  { <<>>,
    <<PlotThread(1, Lit("clue", 12), "active", "medium", 1, 1)>>,
    <<PlotThread(1, Lit("thread", 12), "resolved", "high", 1, 1)>> }

InitReimport == InitWith(ReimportLogs, {<<>>}, {<<>>}, ExternalThreads)

NextReimport ==
  \/ Construct(Owner)
  \/ ImportFixed(Owner)
  \/ \E time \in Times : ImportOrig(Owner, time)

SpecReimport == InitReimport /\ [][NextReimport]_vars

\* C25: an import or a re-import only adds threads: every thread stored
\* before the import is stored after it with the status, the priority and the
\* description it had, so a thread that other tooling set to resolved and
\* high keeps them.
C25_ImportKeepsStoredThreads ==
  [][ imports' # imports =>
        \A i \in 1..Len(plot_threads_file) :
          \E j \in 1..Len(plot_threads_file') :
            /\ plot_threads_file'[j].id = plot_threads_file[i].id
            /\ plot_threads_file'[j].status = plot_threads_file[i].status
            /\ plot_threads_file'[j].priority = plot_threads_file[i].priority
            /\ plot_threads_file'[j].description = plot_threads_file[i].description ]_vars

\* the log section of the file has a heading whose chapter number cannot be read
HasMalformedHeading(file) ==
  /\ file.exists
  /\ \E i \in 1..Len(LogLines(file.lines)) : LogLines(file.lines)[i].k = "escChapter"

\* C26: a failure while parsing one chapter block is contained: the import
\* of a log with a malformed block raises nothing, the malformed block
\* yields no summary, and the summaries of the other chapter blocks are
\* extracted in document order and inserted into the collection.
C26_ParseFailureContained ==
  [][ (/\ imports' # imports
       /\ last_call'.by = "gemini_adapter_fixed"
       /\ HasMalformedHeading(last_call'.log))
        => /\ ~last_call'.raised
           /\ last_call'.extracted = HeadingNums(last_call'.log.lines)
           /\ \A j \in 1..Len(last_call'.extracted) :
                \E i \in 1..Len(chapter_summaries'[last_call'.agent]) :
                  chapter_summaries'[last_call'.agent][i].chapter_num
                    = last_call'.extracted[j] ]_vars

(***************************************************************************)
(* create_next_chapter called with a custom stage list                     *)
(***************************************************************************)

MaxStages == 2

StageNames == {"review", "pre_check", "writing", "finalize"}

\* the lists a caller may pass as custom_workflow
CustomWorkflows == UNION {[1..n -> StageNames] : n \in 0..MaxStages}

\* custom_workflow or self.workflow, line 473: a list that is empty is
\* false, and the default workflow is taken
EffectiveWorkflow(custom) == IF custom # <<>> THEN custom ELSE DefaultWorkflow

\* create_next_chapter(custom_workflow), lines 471-481
StartRunCustom(a, custom) ==
  /\ pc[a] = "idle"
  /\ LatestChapterNumber(chapter_summaries[a]) + 1 <= MaxRunChapter
  /\ context' = [context EXCEPT ![a] =
                   NewContext(LatestChapterNumber(chapter_summaries[a]) + 1,
                              EffectiveWorkflow(custom))]
  /\ steps_log' = [steps_log EXCEPT ![a] = <<>>]
  /\ run_start' = [run_start EXCEPT ![a] =
                     Snapshot(chapter_summaries[a], summaries_file, chapter_files, agent_file)]
  /\ pc' = [pc EXCEPT ![a] = "step"]
  /\ last_call' = [op |-> "create_next_chapter", agent |-> a, custom_workflow |-> custom]
  /\ UNCHANGED <<chapter_summaries, summaries_file, characters, characters_file,
                 plot_threads, plot_threads_file, chapter_files, agent_file,
                 imports>>

InitCustom == InitProject({File(<<Line("logPlain", 0, Empty, Empty)>>)})

NextCustom ==
  \/ Construct(Owner)
  \/ \E custom \in CustomWorkflows : StartRunCustom(Owner, custom)
  \/ StepReview(Owner)
  \/ StepPreCheck(Owner)
  \/ StepWriting(Owner)
  \/ FinalizeSaveChapter(Owner)
  \/ \E time \in RunTimes : FinalizeAddSummary(Owner, time)
  \/ FinalizeUpdateLog(Owner)
  \/ StepRaises(Owner)

SpecCustom == InitCustom /\ [][NextCustom]_vars

\* the stages the current run has entered are the first stages of the list
\* that was passed, and a run that returned has entered all of them
RunsTheListPassed ==
  LET a == last_call.agent
  IN /\ IsPrefix(steps_log[a], last_call.custom_workflow)
     /\ context[a].outcome = "returned" => steps_log[a] = last_call.custom_workflow

\* C27: when a custom stage list is passed to create_next_chapter, exactly
\* the stages of that list run, in list order, and no stage of the default
\* workflow runs in their place; this holds for every list, the empty list
\* included.
C27_CustomListRuns ==
  last_call.op = "create_next_chapter" => RunsTheListPassed

\* the same statement for the lists that have a stage
C27_NonEmptyListRuns ==
  (last_call.op = "create_next_chapter" /\ last_call.custom_workflow # <<>>)
    => RunsTheListPassed

\* characters.json, plot_threads.json, chapter_summaries.json, the chapter
\* files and the narrative log, with the collections the agent holds of them
Persisted ==
  <<chapter_summaries, summaries_file, characters, characters_file,
    plot_threads, plot_threads_file, chapter_files, agent_file>>

\* the loop of the run of a is at the given stage
AtStage(a, stages) ==
  /\ pc[a] = "step"
  /\ context[a].outcome = "running"
  /\ CurrentStep(context[a]) \in stages

\* C28: Review, PreCheck and Write change nothing that is persisted: a step
\* of one of these stages leaves the characters, the threads, the chapter
\* summaries, the chapter files and the narrative log as they are, so that
\* they are the same when Finalize starts as they were when the run started.
C28_OnlyFinalizeWrites ==
  [][ /\ AtStage(Owner, {"review", "pre_check", "writing"}) => UNCHANGED Persisted
      /\ AtStage(Owner, {"finalize"})' => NothingWritten(Owner)' ]_vars

\* Finalize is about to start in a run on a store that holds a chapter and
\* a thread that is not active
C28_Witness ==
  /\ AtStage(Owner, {"finalize"})
  /\ steps_log[Owner] = <<"review", "pre_check", "writing">>
  /\ run_start[Owner].summaries # <<>>
  /\ \E i \in 1..Len(plot_threads_file) : plot_threads_file[i].status # "active"
  /\ plot_threads[Owner] = plot_threads_file

(***************************************************************************)
(* extract_chapter_content of gemini_adapter_fixed.py as a function        *)
(***************************************************************************)

\* log_content.find(f"### **第{num}章", from): the first line at or after
\* `from` that holds this text, 0 when there is none.  The character after
\* the number is part of the text, so chapter 1 is not found in the heading
\* of chapter 10.
FindHeading(lines, num, from) ==
  LET at == {i \in from..Len(lines) : /\ lines[i].k \in {"chapter", "indentChapter"}
                                      /\ lines[i].num = num}
  IN IF at = {} THEN 0 ELSE CHOOSE i \in at : \A j \in at : i <= j

\* the positions of the chapter headings of the document, in document order
ChapterPositions(lines) ==
  SelectSeq([i \in 1..Len(lines) |-> i],
            LAMBDA i : lines[i].k \in {"chapter", "indentChapter"})

\* the list `chapters` of parse_gemini_plot_log, found with the heading
\* pattern as test_parser.py has it: the numbers of the headings
AllChapters(lines) ==
  [j \in 1..Len(ChapterPositions(lines)) |-> lines[ChapterPositions(lines)[j]].num]

\* extract_chapter_content(log_content, chapter_num, index, all_chapters),
\* with index counted from 1.  The volume pattern of line 139 has doubled
\* backslashes and matches no line of these documents, so a block that is
\* not ended by the next chapter runs to the end of the document.
ExtractChapterContent(lines, chapter_num, index, all_chapters) ==
  LET chapter_start == FindHeading(lines, chapter_num, 1)
      next_chapter_start ==
        IF index < Len(all_chapters) /\ chapter_start # 0
        THEN FindHeading(lines, all_chapters[index + 1], chapter_start + 1)
        ELSE 0
      last == IF next_chapter_start # 0 THEN next_chapter_start - 1 ELSE Len(lines)
  IN IF chapter_start = 0 THEN [first |-> 0, last |-> 0, text |-> Empty]
     ELSE [first |-> chapter_start, last |-> last,
           text |-> Strip(JoinLines(SubSeq(lines, chapter_start, last)))]

SegmentAlphabet ==
  { Line("chapter", n, Lit("title", n), Empty) : n \in {1, 2, 10} }
  \cup { Line("plot", 0, Empty, Lit("progress", 8)), Line("blank", 0, Empty, Empty) }

\* the log sections given to the function
SegmentLogs ==
  UNION {{File(l) : l \in [1..n -> SegmentAlphabet]} : n \in 0..MaxLines}

\* one call of extract_chapter_content, for one of the headings of the log
CallExtractChapterContent ==
  /\ last_call = NoCall
  /\ \E index \in 1..Len(AllChapters(agent_file.lines)) :
       last_call' = [op |-> "extract_chapter_content", log |-> agent_file,
                     index |-> index,
                     heading |-> ChapterPositions(agent_file.lines)[index],
                     result |-> ExtractChapterContent(agent_file.lines,
                                   AllChapters(agent_file.lines)[index], index,
                                   AllChapters(agent_file.lines))]
  /\ UNCHANGED <<chapter_summaries, summaries_file, characters, characters_file,
                 plot_threads, plot_threads_file, chapter_files, agent_file,
                 pc, context, steps_log, run_start, imports>>

InitSegment == InitProject(SegmentLogs)

NextSegment == CallExtractChapterContent

SpecSegment == InitSegment /\ [][NextSegment]_vars

C29_DistinctNumbersStartAtHeading ==
  (/\ last_call.op = "extract_chapter_content"
   /\ \A i, j \in 1..Len(AllChapters(last_call.log.lines)) :
        AllChapters(last_call.log.lines)[i] = AllChapters(last_call.log.lines)[j] => i = j)
    => last_call.result.first = last_call.heading

=============================================================================
